---------------------------- MODULE Spec2Model ----------------------------
(***************************************************************************)
(* Model of the go2scope "dataio" dataset library (python/dataio/g2sdataset):*)
(* the position writer and the multi-position writer of writer.py and the  *)
(* readers of reader.py.                                                   *)
(*                                                                         *)
(* Python values are modelled as follows.                                  *)
(*   None | x        : the sequences <<>> and <<x>> (None, Some(x))        *)
(*   a str           : the sequence of its pieces ("" is <<>>); the enum-  *)
(*                     like pixel types and dict field names are strings   *)
(*   a path          : the sequence of its components (each a str)         *)
(*   a dict object   : a reference (a sequence of strings) into heap; two  *)
(*                     names bound to the same dict hold the same reference*)
(*   a dict's content: a function from field names to values               *)
(*   str(n), "%09d"  : the sequence of the characters of the text          *)
(*   an exception    : the name of its class, with the place for           *)
(*                     G2SDataError ("G2S:<what>"); "ok" is a normal return*)
(***************************************************************************)
EXTENDS Integers, Sequences, FiniteSets, TLC

VARIABLES
    client,   \* the calling program: the object it drives and its inputs
    dirs,     \* file system: the set of existing directories
    files,    \* file system: path -> content of every existing regular file
    heap,     \* dict objects: reference -> content
    pw,       \* the PosDatasetWriter object driven directly by the caller
    dw,       \* the DatasetWriter object
    pc,       \* where a scripted program stands ("free": calls in any order)
    rd,       \* the DatasetReader constructed on the written dataset, if any
    hist,     \* history of the driven writer: what has been accepted so far
    ret       \* the last call: operation, outcome and the kind of its arguments

vars == <<client, dirs, files, heap, pw, dw, pc, rd, hist, ret>>

----------------------------------------------------------------------------
(* Bounds of the model.                                                    *)

\* largest number of positions a DatasetWriter is opened with
MaxPositions == 2
\* largest number of channels a writer is opened with
MaxChannels == 2

----------------------------------------------------------------------------
(* Python values.                                                          *)

None == <<>>
Some(x) == <<x>>
Val(o) == o[1]

\* x in range(n)
InRange(x, n) == x >= 0 /\ x < n

Digit(d) ==
    CASE d = 0 -> "0" [] d = 1 -> "1" [] d = 2 -> "2" [] d = 3 -> "3"
      [] d = 4 -> "4" [] d = 5 -> "5" [] d = 6 -> "6" [] d = 7 -> "7"
      [] d = 8 -> "8" [] d = 9 -> "9"

RECURSIVE NatStr(_)
\* the decimal digits of a natural number, most significant first
NatStr(n) == IF n < 10 THEN <<Digit(n)>> ELSE NatStr(n \div 10) \o <<Digit(n % 10)>>

\* str(n) for an int
Str(n) == IF n < 0 THEN <<"-">> \o NatStr(-n) ELSE NatStr(n)

RECURSIVE Zeros(_)
Zeros(k) == IF k <= 0 THEN <<>> ELSE <<"0">> \o Zeros(k - 1)

\* "%0<width>d" % n : the sign counts in the width and precedes the zeros
PadZero(n, width) ==
    IF n < 0 THEN <<"-">> \o Zeros(width - 1 - Len(NatStr(-n))) \o NatStr(-n)
    ELSE Zeros(width - Len(NatStr(n))) \o NatStr(n)

\* d.update(r) on dict contents: the fields of r are set in d
Update(d, r) ==
    [k \in (DOMAIN d) \cup (DOMAIN r) |-> IF k \in DOMAIN r THEN r[k] ELSE d[k]]

EmptyDict == [k \in {} |-> 0]

\* the heap with the dict object ref holding content d
Put(hp, ref, d) == [r \in (DOMAIN hp) \cup {ref} |-> IF r = ref THEN d ELSE hp[r]]

\* A dict whose values are dict objects (the writer's _meta): its keys in
\* insertion order, and the reference under each key.
NoEntries == [order |-> <<>>, at |-> [k \in {} |-> <<>>]]

\* m[k] = ref : a new key goes last, a key already present keeps its place
SetEntry(m, k, ref) ==
    [order |-> IF k \in DOMAIN m.at THEN m.order ELSE Append(m.order, k),
     at |-> [j \in (DOMAIN m.at) \cup {k} |-> IF j = k THEN ref ELSE m.at[j]]]

\* os.path.join(path, name); a str is the sequence of its pieces, "" is <<>>,
\* and joining "" adds no component
Join(path, name) == IF name = <<>> THEN path ELSE Append(path, name)

\* os.path.exists
Exists(ds, fs, p) == p \in ds \/ p \in DOMAIN fs

\* the directory a path lies in
Parent(p) == SubSeq(p, 1, Len(p) - 1)

IsPrefix(p, q) == Len(p) <= Len(q) /\ SubSeq(q, 1, Len(p)) = p

----------------------------------------------------------------------------
(* dataset.py                                                              *)

PIX_TYPE_NONE == "NONE"
PIX_TYPE_GRAY_32 == "GRAY32"
PIX_TYPE_GRAY_16 == "GRAY16"
PIX_TYPE_GRAY_8 == "GRAY8"
PIX_TYPE_RGB_32 == "RGB32"
PIX_TYPE_RGB_64 == "RGB64"

\* the pixel size 1.0 um, in tenths of a micron
DefaultPixelSize == 10

\* colour of a ChannelDef constructed from a name alone
DefaultColor == 0

\* ChannelDef(name, color)
ChannelDef(name, color) == [name |-> name, color |-> color]

METADATA_FILE_NAME == <<"metadata.txt">>
KEY_SUMMARY == <<"Summary">>
KEY_SOURCE == "G2SDataset"

----------------------------------------------------------------------------
(* reader.py: the coordinate key                                           *)

\* a key whose numbers follow one another without a separator
frame_key_unseparated(channel, z_slice, frame) ==
    <<"FrameKey">> \o <<"-">> \o Str(frame) \o Str(channel) \o Str(z_slice)

\* PosDatasetReader.get_frame_key(channel, z_slice, frame)
get_frame_key(channel, z_slice, frame) ==
    <<"FrameKey">> \o <<"-">> \o Str(frame) \o <<"-">> \o Str(channel)
        \o <<"-">> \o Str(z_slice)

\* the key of the form that also embeds the position, as sidecars of other
\* producers hold it
FrameKey4(position, channel, z_slice, frame) ==
    <<"FrameKey">> \o <<"-">> \o Str(position) \o <<"-">> \o Str(frame) \o <<"-">> \o Str(channel)
        \o <<"-">> \o Str(z_slice)

\* number of parameters get_frame_key declares
get_frame_key_params == 3

\* a call get_frame_key(*args): the key, or None when Python raises TypeError
\* because the number of arguments is not the number of parameters
call_get_frame_key(args) ==
    IF Len(args) = get_frame_key_params
    THEN Some(get_frame_key(args[1], args[2], args[3]))
    ELSE None

----------------------------------------------------------------------------
(* The values the calling program passes.                                  *)

\* the directory every dataset is created under; it exists from the start
RootPath == << <<"data">> >>
\* the working directory of the process: the path "" joined with a name lies
\* in it
WorkDir == <<>>

\* the caller's dict objects: summary metadata given at open, and an image
\* metadata dict the caller may pass to more than one add_image call
RefS == <<"S">>
RefM == <<"M">>
\* the empty dict a constructor binds to _summary_meta; it is never written
RefE == <<"E">>
\* the dict PosDatasetWriter() binds to _additional_summary_meta
OwnRef(id) == <<"own", id>>
\* the dict a call of add_image creates for the record under a key
FreshRef(id, key) == <<"fresh", id>> \o key

\* pixels.itemsize
ItemSize(pixels) ==
    CASE pixels.dtype = "uint8" -> 1
      [] pixels.dtype = "uint16" -> 2
      [] pixels.dtype = "uint32" -> 4
      [] OTHER -> 8

----------------------------------------------------------------------------
(* writer.py: PosDatasetWriter                                             *)

\* what a method leaves behind: the object, the heap, the file system, and
\* "ok" or the exception raised
Outcome(w, hp, ds, fs, result) ==
    [w |-> w, heap |-> hp, dirs |-> ds, files |-> fs, result |-> result]

\* PosDatasetWriter.__init__; id names the object
PosDatasetWriter_init(id) ==
    [ path |-> Some(<<>>), name |-> Some(<<>>),
      z_slices |-> 0, channel_defs |-> <<>>, frames |-> 0, positions |-> 0,
      width |-> 0, height |-> 0, pixel_type |-> PIX_TYPE_NONE,
      num_components |-> 1, bit_depth |-> 0, pixel_size_um |-> DefaultPixelSize,
      summary_meta |-> Some(RefE), meta |-> Some(NoEntries),
      additional_summary_meta |-> OwnRef(id),
      time_first |-> TRUE, slices_first |-> FALSE,
      uuid |-> <<"uuid-of-writer">>, computer_name |-> <<"host">>,
      user_name |-> <<"user">>, meta_version |-> 9 ]

\* range(channels) -> ChannelDef("Channel-" + str(i))
DefaultChannelDefs(channels) ==
    [i \in 1..channels |-> ChannelDef(<<"Channel-">> \o Str(i - 1), DefaultColor)]

\* os.mkdir(p): the exception it raises, or "ok"
MkdirResult(ds, fs, p) ==
    IF Exists(ds, fs, p) THEN "FileExistsError"
    ELSE IF Parent(p) \in DOMAIN fs THEN "NotADirectoryError"
    ELSE IF Parent(p) \notin ds THEN "FileNotFoundError"
    ELSE "ok"

\* PosDatasetWriter.open(root_path, name, positions, channels, z_slices,
\* frames, additional_meta); additional_meta is None or Some(reference)
PosDatasetWriter_open(w, hp, ds, fs, root_path, name, positions, channels, z_slices, frames, additional_meta) ==
    LET w1 == [w EXCEPT !.path = root_path, !.name = Some(name)]
        \* "if additional_meta:" is false for None and for an empty dict
        w2 == IF additional_meta # None /\ DOMAIN hp[Val(additional_meta)] # {}
              THEN [w1 EXCEPT !.additional_summary_meta = Val(additional_meta)]
              ELSE w1
    IN  IF root_path = None THEN Outcome(w2, hp, ds, fs, "TypeError")
        ELSE
        LET pos_dir == Join(Val(root_path), name)
            mk == MkdirResult(ds, fs, pos_dir)
        IN  IF Exists(ds, fs, pos_dir)
            THEN Outcome(w2, hp, ds, fs, "G2S:position_directory_exists")
            ELSE IF mk # "ok" THEN Outcome(w2, hp, ds, fs, mk)
            ELSE Outcome([w2 EXCEPT !.positions = positions,
                                    !.channel_defs = DefaultChannelDefs(channels),
                                    !.z_slices = z_slices,
                                    !.frames = frames,
                                    !.pixel_size_um = DefaultPixelSize],
                         hp, ds \cup {pos_dir}, fs, "ok")

\* PosDatasetWriter.initialize
PosDatasetWriter_initialize(w, width, height, pixel_type, bit_depth, num_components) ==
    IF w.width # 0 \/ w.height # 0 \/ w.pixel_type # PIX_TYPE_NONE
    THEN [w |-> w, result |-> "G2S:dimensions_already_defined"]
    ELSE [w |-> [w EXCEPT !.width = width, !.height = height,
                          !.pixel_type = pixel_type, !.bit_depth = bit_depth,
                          !.num_components = num_components],
          result |-> "ok"]

\* json.dumps(self._meta): null for None; for a dict the text holds the content
\* of every dict reached, whatever objects they were
Serialize(meta, hp) ==
    IF meta = None THEN None
    ELSE Some([order |-> Val(meta).order,
               at |-> [k \in DOMAIN Val(meta).at |-> hp[Val(meta).at[k]]]])

\* save_metadata that writes the text of an empty map
save_metadata_empty(w, hp, ds, fs) ==
    IF w.path = None \/ w.name = None THEN Outcome(w, hp, ds, fs, "TypeError")
    ELSE IF Parent(Join(Join(Val(w.path), Val(w.name)), METADATA_FILE_NAME)) \notin ds
    THEN Outcome(w, hp, ds, fs, "FileNotFoundError")
    ELSE Outcome(w, hp, ds,
                 [p \in (DOMAIN fs) \cup {Join(Join(Val(w.path), Val(w.name)), METADATA_FILE_NAME)} |->
                    IF p = Join(Join(Val(w.path), Val(w.name)), METADATA_FILE_NAME)
                    THEN [kind |-> "sidecar", json |-> Some(NoEntries)]
                    ELSE fs[p]],
                 "ok")

\* PosDatasetWriter.save_metadata
PosDatasetWriter_save_metadata(w, hp, ds, fs) ==
    IF w.path = None \/ w.name = None THEN Outcome(w, hp, ds, fs, "TypeError")
    ELSE
    LET file_name == Join(Join(Val(w.path), Val(w.name)), METADATA_FILE_NAME)
    IN  IF file_name \in ds THEN Outcome(w, hp, ds, fs, "IsADirectoryError")
        ELSE IF Parent(file_name) \in DOMAIN fs
        THEN Outcome(w, hp, ds, fs, "NotADirectoryError")
        ELSE IF Parent(file_name) \notin ds
        THEN Outcome(w, hp, ds, fs, "FileNotFoundError")
        ELSE Outcome(w, hp, ds,
                     [p \in (DOMAIN fs) \cup {file_name} |->
                        IF p = file_name
                        THEN [kind |-> "sidecar", json |-> Serialize(w.meta, hp)]
                        ELSE fs[p]],
                     "ok")

\* the end of PosDatasetWriter.close, s being what save_metadata did
Invalidate(s) ==
    IF s.result # "ok" THEN s
    ELSE [s EXCEPT !.w = [s.w EXCEPT !.meta = None, !.summary_meta = None,
                                     !.path = None, !.name = None]]

\* PosDatasetWriter.close
PosDatasetWriter_close(w, hp, ds, fs) ==
    Invalidate(PosDatasetWriter_save_metadata(w, hp, ds, fs))

\* PosDatasetWriter.set_pixel_size
PosDatasetWriter_set_pixel_size(w, pixel_size_um) ==
    [w |-> [w EXCEPT !.pixel_size_um = pixel_size_um], result |-> "ok"]

\* PosDatasetWriter.set_channel_data
PosDatasetWriter_set_channel_data(w, channel_data) ==
    IF Len(w.channel_defs) = Len(channel_data)
    THEN [w |-> [w EXCEPT !.channel_defs = channel_data], result |-> "ok"]
    ELSE [w |-> w, result |-> "G2S:channel_array_size"]

\* PosDatasetWriter._create_summary_meta: the fields written into the dict
\* bound to _additional_summary_meta, which is also the dict returned
SummaryFields(w) ==
    [ Prefix |-> w.name, Source |-> KEY_SOURCE,
      Width |-> w.width, Height |-> w.height, PixelType |-> w.pixel_type,
      PixelSize_um |-> w.pixel_size_um, BitDepth |-> w.bit_depth,
      PixelAspect |-> 1, Positions |-> w.positions,
      Channels |-> Len(w.channel_defs),
      ChNames |-> [i \in DOMAIN w.channel_defs |-> w.channel_defs[i].name],
      Colors |-> [i \in DOMAIN w.channel_defs |-> w.channel_defs[i].color],
      Slices |-> w.z_slices, Frames |-> w.frames,
      TimeFirst |-> w.time_first, SlicesFirst |-> w.slices_first,
      NumComponents |-> w.num_components, UUID |-> w.uuid,
      MetadataVersion |-> w.meta_version,
      ComputerName |-> w.computer_name, UserName |-> w.user_name ]

create_summary_meta(w, hp) ==
    [hp EXCEPT ![w.additional_summary_meta] = Update(@, SummaryFields(w))]

\* the pixel type add_image infers from the array, or the error it raises
InferPixelType(pixels) ==
    CASE pixels.dtype = "uint8" -> PIX_TYPE_GRAY_8
      [] pixels.dtype = "uint16" -> PIX_TYPE_GRAY_16
      [] pixels.dtype = "uint32" ->
            IF Len(pixels.shape) = 4 THEN PIX_TYPE_RGB_32
            ELSE IF Len(pixels.shape) = 2 THEN PIX_TYPE_GRAY_32
            ELSE "G2S:unsupported_components"
      [] OTHER -> "G2S:unsupported_type"

\* "img_%09d_%s_%03d.tif" % (frame, channel name, z_slice)
ImageFileName(frame, channel_name, z_slice) ==
    <<"img_">> \o PadZero(frame, 9) \o <<"_">> \o channel_name \o <<"_">>
        \o PadZero(z_slice, 3) \o <<".tif">>

\* the fields add_image sets in the image dict (lines 193-212), given the
\* content d the dict has when the call starts
ImageFields(w, d, position, channel, z_slice, frame) ==
    [ Width |-> w.width, Height |-> w.height,
      \* ImageMeta.CHANNEL and ImageMeta.CHANNEL_NAME are one field: the name,
      \* assigned last, stays
      Channel |-> w.channel_defs[channel + 1].name,
      ChannelIndex |-> channel, PositionIndex |-> position,
      Frame |-> frame, FrameIndex |-> frame,
      Slice |-> z_slice, SliceIndex |-> z_slice,
      PixelType |-> w.pixel_type, PixelSize_um |-> w.pixel_size_um,
      BitDepth |-> w.bit_depth,
      UUID |-> IF "UUID" \in DOMAIN d THEN d["UUID"] ELSE <<"uuid-of-image">>,
      PositionName |-> IF "PositionName" \in DOMAIN d THEN d["PositionName"]
                       ELSE <<"Pos-">> \o Str(position),
      FileName |-> ImageFileName(frame, w.channel_defs[channel + 1].name, z_slice) ]

\* cv2.imwrite(file_name, pixels): False when the file cannot be created or
\* the codec reports failure (codec_ok is the codec's verdict)
ImwriteOk(ds, fs, file_name, codec_ok) ==
    codec_ok /\ Parent(file_name) \in ds /\ file_name \notin ds

\* add_image, the image file: cv2.imwrite of the array under path
WriteImage(w, hp, ds, fs, pixels, path, codec_ok) ==
    IF ~ImwriteOk(ds, fs, path, codec_ok)
    THEN Outcome(w, hp, ds, fs, "G2S:image_write_failed")
    ELSE Outcome(w, hp, ds,
                 [p \in (DOMAIN fs) \cup {path} |->
                    IF p = path THEN [kind |-> "image", pixels |-> pixels] ELSE fs[p]],
                 "ok")

\* add_image, the store: the dict ref, of content rec, goes under the key that
\* get_frame_key returns for args, then the image is written.  A new dict that
\* is stored nowhere is dropped with the call (keep)
StoreRecord(w, hp, ds, fs, pixels, args, ref, rec, keep, codec_ok) ==
    IF call_get_frame_key(args) = None \/ w.meta = None
    THEN Outcome(w, IF keep THEN Put(hp, ref, rec) ELSE hp, ds, fs,
                 "TypeError")
    ELSE IF w.path = None \/ w.name = None
    THEN Outcome([w EXCEPT !.meta = Some(SetEntry(Val(w.meta),
                                                  Val(call_get_frame_key(args)), ref))],
                 Put(hp, ref, rec), ds, fs, "TypeError")
    ELSE WriteImage([w EXCEPT !.meta = Some(SetEntry(Val(w.meta),
                                                     Val(call_get_frame_key(args)), ref))],
                    Put(hp, ref, rec), ds, fs, pixels,
                    Join(Join(Val(w.path), Val(w.name)), rec.FileName), codec_ok)

\* "if additional_meta:" is true for a dict that is not empty
Given(hp, additional_meta) ==
    additional_meta # None /\ DOMAIN hp[Val(additional_meta)] # {}

\* the dict add_image fills: the caller's, or a new one
ImageRef(id, hp, additional_meta, args) ==
    IF Given(hp, additional_meta) THEN Val(additional_meta)
    ELSE IF call_get_frame_key(args) = None THEN <<"fresh", id>>
    ELSE FreshRef(id, Val(call_get_frame_key(args)))

\* the content the dict has when add_image starts filling it
ImageDict(hp, additional_meta) ==
    IF Given(hp, additional_meta) THEN hp[Val(additional_meta)] ELSE EmptyDict

\* add_image, the image record (lines 188-217)
FillRecord(id, w, hp, ds, fs, pixels, position, channel, z_slice, frame, additional_meta, codec_ok) ==
    StoreRecord(w, hp, ds, fs, pixels, <<position, channel, z_slice, frame>>,
                ImageRef(id, hp, additional_meta, <<position, channel, z_slice, frame>>),
                Update(ImageDict(hp, additional_meta),
                       ImageFields(w, ImageDict(hp, additional_meta),
                                   position, channel, z_slice, frame)),
                Given(hp, additional_meta), codec_ok)

\* "if not self._summary_meta": None and the empty dict are false
NoSummary(w, hp) == w.summary_meta = None \/ DOMAIN hp[Val(w.summary_meta)] = {}

\* add_image, the summary (lines 184-186): created on the first call that
\* comes this far, and entered in _meta, which is None on a closed writer
Summarize(id, w, hp, ds, fs, pixels, position, channel, z_slice, frame, additional_meta, codec_ok) ==
    IF ~NoSummary(w, hp)
    THEN FillRecord(id, w, hp, ds, fs, pixels, position, channel, z_slice, frame,
                    additional_meta, codec_ok)
    ELSE IF w.meta = None
    THEN Outcome([w EXCEPT !.summary_meta = Some(w.additional_summary_meta)],
                 create_summary_meta(w, hp), ds, fs, "TypeError")
    ELSE FillRecord(id,
                    [w EXCEPT !.summary_meta = Some(w.additional_summary_meta),
                              !.meta = Some(SetEntry(Val(w.meta), KEY_SUMMARY,
                                                     w.additional_summary_meta))],
                    create_summary_meta(w, hp), ds, fs, pixels, position, channel,
                    z_slice, frame, additional_meta, codec_ok)

\* add_image, the default bit depth (lines 177-182)
DefaultBitDepth(w, pixels) ==
    IF w.bit_depth # 0 THEN w
    ELSE [w EXCEPT !.bit_depth = IF Len(pixels.shape) = 2 THEN ItemSize(pixels) * 8 ELSE 8]

\* add_image, the checks (lines 144-175) on a writer whose _num_components
\* has been set to 1
CheckImage(id, w, hp, ds, fs, pixels, position, channel, z_slice, frame, additional_meta, codec_ok) ==
    IF InferPixelType(pixels) \in {"G2S:unsupported_components", "G2S:unsupported_type"}
    THEN Outcome(w, hp, ds, fs, InferPixelType(pixels))
    ELSE IF w.pixel_type # InferPixelType(pixels)
    THEN Outcome(w, hp, ds, fs, "G2S:pixel_type_mismatch")
    ELSE IF w.width # pixels.shape[2] \/ w.height # pixels.shape[1]
    THEN Outcome(w, hp, ds, fs, "G2S:dimensions_mismatch")
    ELSE IF ~InRange(channel, Len(w.channel_defs)) \/ ~InRange(z_slice, w.z_slices)
            \/ ~InRange(position, w.positions) \/ ~InRange(frame, w.frames)
    THEN Outcome(w, hp, ds, fs, "G2S:invalid_coordinates")
    ELSE Summarize(id, DefaultBitDepth(w, pixels), hp, ds, fs, pixels, position, channel,
                   z_slice, frame, additional_meta, codec_ok)

\* PosDatasetWriter.add_image; id names the writer object, additional_meta is
\* None or Some(reference to the caller's dict)
PosDatasetWriter_add_image(id, w, hp, ds, fs, pixels, position, channel, z_slice, frame, additional_meta, codec_ok) ==
    CheckImage(id, [w EXCEPT !.num_components = 1], hp, ds, fs, pixels, position, channel,
               z_slice, frame, additional_meta, codec_ok)

----------------------------------------------------------------------------
(* writer.py: DatasetWriter                                                *)

\* DatasetWriter.__init__
DatasetWriter_init ==
    [ number_of_components |-> 1, positions |-> <<>>,
      root_path |-> Some(<<>>), name |-> Some(<<>>),
      channel_defs |-> <<>>, z_slices |-> 0, frames |-> 0,
      additional_summary_meta |-> RefE,
      pixel_type |-> PIX_TYPE_NONE, width |-> 0, height |-> 0,
      bit_depth |-> 0, pix_size_um |-> DefaultPixelSize ]

\* os.listdir(p): the names of the entries of directory p
Listdir(ds, fs, p) ==
    {q[Len(q)] : q \in {x \in ds \cup DOMAIN fs : Len(x) = Len(p) + 1 /\ IsPrefix(p, x)}}

\* shutil.rmtree(p, ignore_errors=True)
Rmtree(ds, fs, p) ==
    [dirs |-> {q \in ds : ~IsPrefix(p, q)},
     files |-> [q \in {x \in DOMAIN fs : ~IsPrefix(p, x)} |-> fs[q]]]

\* the dicts of position writers that no slot holds any more are gone
Collect(hp) == [r \in {x \in DOMAIN hp : x[1] \notin {"own", "fresh"}} |-> hp[r]]

\* an open that deletes any existing directory without looking for a sidecar
open_overwrite_unguarded(d, hp, ds, fs, root_path, name, positions, channels, z_slices, frames, overwrite, additional_meta, first) ==
    LET d1 == [d EXCEPT !.positions = [i \in 1..positions |-> None],
                        !.root_path = Some(root_path), !.name = Some(name),
                        !.channel_defs = DefaultChannelDefs(channels),
                        !.z_slices = z_slices, !.frames = frames]
        ds_dir == Join(root_path, name)
        gone == Rmtree(ds, fs, ds_dir)
    IN  IF overwrite /\ Exists(ds, fs, ds_dir)
        THEN IF ds_dir \notin ds
             THEN Outcome(d1, Collect(hp), ds, fs, "G2S:overwrite_non_directory")
             ELSE Outcome(d1, Collect(hp), gone.dirs \cup {ds_dir}, gone.files, "ok")
        ELSE IF Exists(ds, fs, ds_dir)
        THEN Outcome(d1, Collect(hp), ds, fs, "G2S:directory_exists")
        ELSE Outcome(d1, Collect(hp), ds \cup {ds_dir}, fs, "ok")

\* DatasetWriter.open; first is the entry os.listdir happens to list first
\* (None for an empty listing), additional_meta is None or Some(reference)
DatasetWriter_open(d, hp, ds, fs, root_path, name, positions, channels, z_slices, frames, overwrite, additional_meta, first) ==
    LET d1 == [d EXCEPT !.positions = [i \in 1..positions |-> None],
                        !.root_path = Some(root_path), !.name = Some(name),
                        !.channel_defs = DefaultChannelDefs(channels),
                        !.z_slices = z_slices, !.frames = frames,
                        !.additional_summary_meta =
                            IF additional_meta # None /\ DOMAIN hp[Val(additional_meta)] # {}
                            THEN Val(additional_meta) ELSE RefE]
        hp1 == Collect(hp)
        ds_dir == Join(root_path, name)
        gone == Rmtree(ds, fs, ds_dir)
    IN  IF overwrite /\ Exists(ds, fs, ds_dir)
        THEN IF ds_dir \notin ds THEN Outcome(d1, hp1, ds, fs, "G2S:overwrite_non_directory")
             ELSE IF first = None THEN Outcome(d1, hp1, ds, fs, "G2S:overwrite_not_a_dataset")
             ELSE IF ~Exists(ds, fs, Join(Join(ds_dir, Val(first)), METADATA_FILE_NAME))
             THEN Outcome(d1, hp1, ds, fs, "G2S:overwrite_no_metadata")
             ELSE Outcome(d1, hp1, gone.dirs \cup {ds_dir}, gone.files, "ok")
        ELSE IF Exists(ds, fs, ds_dir)
        THEN Outcome(d1, hp1, ds, fs, "G2S:directory_exists")
        ELSE IF MkdirResult(ds, fs, ds_dir) # "ok"
        THEN Outcome(d1, hp1, ds, fs, MkdirResult(ds, fs, ds_dir))
        ELSE Outcome(d1, hp1, ds \cup {ds_dir}, fs, "ok")

\* DatasetWriter.initialize
DatasetWriter_initialize(d, width, height, pixel_type, bit_depth) ==
    IF d.width # 0 \/ d.height # 0 \/ d.pixel_type # PIX_TYPE_NONE
    THEN [w |-> d, result |-> "G2S:dimensions_already_defined"]
    ELSE
    LET d1 == [d EXCEPT !.width = width, !.height = height, !.pixel_type = pixel_type,
                        !.bit_depth = bit_depth, !.number_of_components = 1]
    IN  IF d1.bit_depth # 0 THEN [w |-> d1, result |-> "ok"]
        ELSE CASE pixel_type = PIX_TYPE_GRAY_8 ->
                    [w |-> [d1 EXCEPT !.bit_depth = 8], result |-> "ok"]
               [] pixel_type = PIX_TYPE_GRAY_16 ->
                    [w |-> [d1 EXCEPT !.bit_depth = 16], result |-> "ok"]
               [] pixel_type = PIX_TYPE_RGB_32 ->
                    [w |-> [d1 EXCEPT !.bit_depth = 256, !.number_of_components = 4],
                     result |-> "ok"]
               [] pixel_type = PIX_TYPE_RGB_64 ->
                    [w |-> [d1 EXCEPT !.bit_depth = 16, !.number_of_components = 4],
                     result |-> "ok"]
               [] pixel_type = PIX_TYPE_GRAY_32 ->
                    [w |-> [d1 EXCEPT !.bit_depth = 32], result |-> "ok"]
               [] OTHER -> [w |-> d1, result |-> "G2S:unsupported_pixel_type"]

\* DatasetWriter.set_channel_data
DatasetWriter_set_channel_data(d, channel_data) ==
    IF Len(d.channel_defs) = Len(channel_data)
    THEN [w |-> [d EXCEPT !.channel_defs = channel_data], result |-> "ok"]
    ELSE [w |-> d, result |-> "G2S:channel_array_size"]

\* DatasetWriter.set_pixel_size
DatasetWriter_set_pixel_size(d, pixel_size_um) ==
    [w |-> [d EXCEPT !.pix_size_um = pixel_size_um], result |-> "ok"]

\* the list index Python uses for self._positions[position]: None (IndexError)
\* outside [-len, len), counted from the end when negative
ListIndex(len, position) ==
    IF position >= len \/ position < -len THEN None
    ELSE IF position < 0 THEN Some(len + position + 1)
    ELSE Some(position + 1)

\* slot i of _positions holds the position writer as add_image left it
Bind(d, i, a) ==
    Outcome([d EXCEPT !.positions[i] = Some(a.w)], a.heap, a.dirs, a.files, a.result)

\* the new position writer w after initialize, set_channel_data and
\* set_pixel_size (lines 396-400)
Prepare(w, d, pixels) ==
    PosDatasetWriter_set_pixel_size(
        PosDatasetWriter_set_channel_data(
            PosDatasetWriter_initialize(w, pixels.shape[2], pixels.shape[1], d.pixel_type,
                                        d.bit_depth, d.number_of_components).w,
            d.channel_defs).w,
        d.pix_size_um).w

\* add_image on a free slot i, o being what pos_ds.open did: the position
\* writer is prepared, bound to the slot and given the image
CreatePosition(d, hp, ds, fs, i, id, o, pixels, position, channel, z_slice, frame, additional_meta, codec_ok) ==
    IF o.result # "ok" THEN Outcome(d, hp, ds, fs, o.result)
    ELSE Bind(d, i, PosDatasetWriter_add_image(id, Prepare(o.w, d, pixels), o.heap, o.dirs,
                                               o.files, pixels, position, channel, z_slice,
                                               frame, additional_meta, codec_ok))

\* an add_image that never compares the supplied name with the bound one
add_at_slot_any_name(d, hp, ds, fs, i, id, pixels, position, position_name, channel, z_slice, frame, additional_meta, codec_ok) ==
    IF d.positions[i] = None /\ (d.root_path = None \/ d.name = None)
    THEN Outcome(d, hp, ds, fs, "TypeError")
    ELSE IF d.positions[i] = None
    THEN CreatePosition(d, hp, ds, fs, i, id,
             PosDatasetWriter_open(PosDatasetWriter_init(id),
                 Put(hp, OwnRef(id), EmptyDict), ds, fs,
                 Some(Join(Val(d.root_path), Val(d.name))),
                 IF position_name # <<>> THEN position_name
                 ELSE <<"Pos-">> \o Str(position),
                 Len(d.positions), Len(d.channel_defs), d.z_slices, d.frames,
                 Some(d.additional_summary_meta)),
             pixels, position, channel, z_slice, frame, additional_meta, codec_ok)
    ELSE Bind(d, i, PosDatasetWriter_add_image(id, Val(d.positions[i]), hp, ds, fs, pixels,
                                               position, channel, z_slice, frame,
                                               additional_meta, codec_ok))

\* add_image at slot i of _positions
AddAtSlot(d, hp, ds, fs, i, id, pixels, position, position_name, channel, z_slice, frame, additional_meta, codec_ok) ==
    IF d.positions[i] = None
    THEN \* create a positional data set
         IF d.root_path = None \/ d.name = None THEN Outcome(d, hp, ds, fs, "TypeError")
         ELSE CreatePosition(d, hp, ds, fs, i, id,
                  PosDatasetWriter_open(PosDatasetWriter_init(id),
                      Put(hp, OwnRef(id), EmptyDict), ds, fs,
                      Some(Join(Val(d.root_path), Val(d.name))),
                      IF position_name # <<>> THEN position_name
                      ELSE <<"Pos-">> \o Str(position),
                      Len(d.positions), Len(d.channel_defs), d.z_slices, d.frames,
                      Some(d.additional_summary_meta)),
                  pixels, position, channel, z_slice, frame, additional_meta, codec_ok)
    ELSE IF position_name # <<>> /\ Val(d.positions[i]).name # Some(position_name)
    THEN Outcome(d, hp, ds, fs, "G2S:position_name_mismatch")
    ELSE Bind(d, i, PosDatasetWriter_add_image(id, Val(d.positions[i]), hp, ds, fs, pixels,
                                               position, channel, z_slice, frame,
                                               additional_meta, codec_ok))

\* DatasetWriter.add_image
DatasetWriter_add_image(d, hp, ds, fs, pixels, position, position_name, channel, z_slice, frame, additional_meta, codec_ok) ==
    IF ListIndex(Len(d.positions), position) = None
    THEN Outcome(d, hp, ds, fs, "IndexError")
    ELSE AddAtSlot(d, hp, ds, fs, Val(ListIndex(Len(d.positions), position)),
                   Digit(Val(ListIndex(Len(d.positions), position)) - 1),
                   pixels, position, position_name, channel, z_slice, frame,
                   additional_meta, codec_ok)

RECURSIVE CloseAll(_, _, _, _, _)
\* the loop of DatasetWriter.close after slot i, c being what the close of the
\* position writer in slot i did: the loop ends if that close raised
CloseNext(d, hp, ds, fs, i, c) ==
    IF c.result # "ok" THEN Outcome(d, hp, ds, fs, c.result)
    ELSE CloseAll([d EXCEPT !.positions[i] = Some(c.w)], c.heap, c.dirs, c.files, i + 1)

\* the loop of DatasetWriter.close from slot i on
CloseAll(d, hp, ds, fs, i) ==
    IF i > Len(d.positions) THEN Outcome(d, hp, ds, fs, "ok")
    ELSE IF d.positions[i] = None THEN CloseAll(d, hp, ds, fs, i + 1)
    ELSE CloseNext(d, hp, ds, fs, i,
                   PosDatasetWriter_close(Val(d.positions[i]), hp, ds, fs))

\* the end of DatasetWriter.close, c being what the loop did
Forget(c) ==
    IF c.result # "ok" THEN c
    ELSE [c EXCEPT !.w = [c.w EXCEPT !.root_path = None, !.name = None]]

\* DatasetWriter.close
DatasetWriter_close(d, hp, ds, fs) == Forget(CloseAll(d, hp, ds, fs, 1))

----------------------------------------------------------------------------
(* g2sdataset.py: G2SPosDatasetWriter, the earlier position writer          *)

\* the dict _get_summary_meta creates
SummaryRef == <<"summary">>

\* G2SPosDatasetWriter.__init__
G2SPosDatasetWriter_init ==
    [ path |-> Some(<<>>), name |-> Some(<<>>),
      z_slices |-> 0, channel_names |-> <<>>, frames |-> 0, positions |-> 0,
      width |-> 0, height |-> 0, pixel_type |-> PIX_TYPE_NONE, bit_depth |-> 0,
      pixel_size_um |-> DefaultPixelSize,
      summary_meta |-> Some(RefE), meta |-> Some(NoEntries) ]

\* G2SPosDatasetWriter.create; the channels are named "Channel_<i>"
G2SPosDatasetWriter_create(w, hp, ds, fs, root_path, name, positions, channels, z_slices, frames) ==
    IF Exists(ds, fs, Join(root_path, name))
    THEN Outcome([w EXCEPT !.path = Some(root_path), !.name = Some(name)], hp, ds, fs,
                 "G2S:position_directory_exists")
    ELSE IF MkdirResult(ds, fs, Join(root_path, name)) # "ok"
    THEN Outcome([w EXCEPT !.path = Some(root_path), !.name = Some(name)], hp, ds, fs,
                 MkdirResult(ds, fs, Join(root_path, name)))
    ELSE Outcome([w EXCEPT !.path = Some(root_path), !.name = Some(name),
                           !.positions = positions,
                           !.channel_names = [i \in 1..channels |-> <<"Channel_">> \o Str(i - 1)],
                           !.z_slices = z_slices, !.frames = frames,
                           !.pixel_size_um = DefaultPixelSize],
                 hp, ds \cup {Join(root_path, name)}, fs, "ok")

\* G2SPosDatasetWriter.set_image_dimensions
G2SPosDatasetWriter_set_image_dimensions(w, width, height, pixel_type) ==
    IF w.width # 0 \/ w.height # 0 \/ w.pixel_type # PIX_TYPE_NONE
    THEN [w |-> w, result |-> "G2S:dimensions_already_defined"]
    ELSE [w |-> [w EXCEPT !.width = width, !.height = height, !.pixel_type = pixel_type],
          result |-> "ok"]

\* G2SPosDatasetWriter.close: the map is written as json text, then the
\* writer is made invalid
G2SPosDatasetWriter_close(w, hp, ds, fs) ==
    IF w.path = None \/ w.name = None THEN Outcome(w, hp, ds, fs, "TypeError")
    ELSE IF Parent(Join(Join(Val(w.path), Val(w.name)), METADATA_FILE_NAME)) \notin ds
    THEN Outcome(w, hp, ds, fs, "FileNotFoundError")
    ELSE Outcome([w EXCEPT !.meta = None, !.summary_meta = None, !.path = None, !.name = None],
                 hp, ds,
                 [p \in (DOMAIN fs) \cup {Join(Join(Val(w.path), Val(w.name)), METADATA_FILE_NAME)} |->
                    IF p = Join(Join(Val(w.path), Val(w.name)), METADATA_FILE_NAME)
                    THEN [kind |-> "sidecar", json |-> Serialize(w.meta, hp)]
                    ELSE fs[p]],
                 "ok")

\* the dict _get_summary_meta returns
G2SSummaryFields(w) ==
    [ Prefix |-> IF w.name = None THEN None ELSE Val(w.name),
      Source |-> KEY_SOURCE, Width |-> w.width, Height |-> w.height,
      PixelType |-> w.pixel_type, PixelSize_um |-> w.pixel_size_um, BitDepth |-> w.bit_depth,
      PixelAspect |-> 1, Positions |-> w.positions, Channels |-> Len(w.channel_names),
      ChNames |-> w.channel_names, Slices |-> w.z_slices, Frames |-> w.frames ]

RECURSIVE Spaces(_)
Spaces(k) == IF k <= 0 THEN <<>> ELSE <<" ">> \o Spaces(k - 1)

\* "img_%9d_%s_%d.tif" % (frame, channel name, z_slice): the frame number is
\* padded with spaces
G2SImageFileName(frame, channel_name, z_slice) ==
    <<"img_">> \o Spaces(9 - Len(Str(frame))) \o Str(frame) \o <<"_">> \o channel_name
        \o <<"_">> \o Str(z_slice) \o <<".tif">>

\* the fields add_image sets in the image dict; ImageMeta.CHANNEL and
\* ImageMeta.CHANNEL_NAME are one field, and the name, assigned last, stays
G2SImageFields(w, position, channel, z_slice, frame) ==
    [ Width |-> w.width, Height |-> w.height,
      Channel |-> w.channel_names[channel + 1],
      ChannelIndex |-> channel, PositionIndex |-> position,
      Frame |-> frame, FrameIndex |-> frame,
      Slice |-> z_slice, SliceIndex |-> z_slice,
      Summary |-> Val(w.summary_meta) ]

\* add_image, the record and the image: image_meta is the caller's dict
\* itself if one is given, else a new dict; it is filled, stored under the
\* key of (channel, z_slice, frame), and the image is written
G2SStore(w, hp, ds, fs, pixels, position, channel, z_slice, frame, additional_meta, codec_ok) ==
    IF w.meta = None
    THEN Outcome(w, IF Given(hp, additional_meta)
                    THEN Put(hp, Val(additional_meta),
                             Update(hp[Val(additional_meta)],
                                    G2SImageFields(w, position, channel, z_slice, frame)))
                    ELSE hp,
                 ds, fs, "TypeError")
    ELSE IF w.path = None \/ w.name = None
    THEN Outcome([w EXCEPT !.meta = Some(SetEntry(Val(w.meta),
                                get_frame_key(channel, z_slice, frame),
                                IF Given(hp, additional_meta) THEN Val(additional_meta)
                                ELSE FreshRef("g2s", get_frame_key(channel, z_slice, frame))))],
                 Put(hp, IF Given(hp, additional_meta) THEN Val(additional_meta)
                         ELSE FreshRef("g2s", get_frame_key(channel, z_slice, frame)),
                     Update(ImageDict(hp, additional_meta),
                            G2SImageFields(w, position, channel, z_slice, frame))),
                 ds, fs, "TypeError")
    ELSE WriteImage([w EXCEPT !.meta = Some(SetEntry(Val(w.meta),
                                   get_frame_key(channel, z_slice, frame),
                                   IF Given(hp, additional_meta) THEN Val(additional_meta)
                                   ELSE FreshRef("g2s", get_frame_key(channel, z_slice, frame))))],
                    Put(hp, IF Given(hp, additional_meta) THEN Val(additional_meta)
                            ELSE FreshRef("g2s", get_frame_key(channel, z_slice, frame)),
                        Update(ImageDict(hp, additional_meta),
                               G2SImageFields(w, position, channel, z_slice, frame))),
                    ds, fs, pixels,
                    Join(Join(Val(w.path), Val(w.name)),
                         G2SImageFileName(frame, w.channel_names[channel + 1], z_slice)),
                    codec_ok)

\* add_image, the summary: created by the first call that comes this far and
\* entered in _meta, which is None on a closed writer
G2SSummarize(w, hp, ds, fs, pixels, position, channel, z_slice, frame, additional_meta, codec_ok) ==
    IF w.summary_meta # None /\ DOMAIN hp[Val(w.summary_meta)] # {}
    THEN G2SStore(w, hp, ds, fs, pixels, position, channel, z_slice, frame,
                  additional_meta, codec_ok)
    ELSE IF w.meta = None
    THEN Outcome([w EXCEPT !.summary_meta = Some(SummaryRef)],
                 Put(hp, SummaryRef, G2SSummaryFields(w)), ds, fs, "TypeError")
    ELSE G2SStore([w EXCEPT !.summary_meta = Some(SummaryRef),
                            !.meta = Some(SetEntry(Val(w.meta), KEY_SUMMARY, SummaryRef))],
                  Put(hp, SummaryRef, G2SSummaryFields(w)), ds, fs, pixels, position,
                  channel, z_slice, frame, additional_meta, codec_ok)

\* G2SPosDatasetWriter.add_image: w = pixels.shape[0] and h = pixels.shape[1]
\* are compared with the declared width and height
G2SPosDatasetWriter_add_image(w, hp, ds, fs, pixels, position, channel, z_slice, frame, additional_meta, codec_ok) ==
    IF InferPixelType(pixels) \in {"G2S:unsupported_components", "G2S:unsupported_type"}
    THEN Outcome(w, hp, ds, fs, InferPixelType(pixels))
    ELSE IF w.pixel_type # InferPixelType(pixels)
    THEN Outcome(w, hp, ds, fs, "G2S:pixel_type_mismatch")
    ELSE IF w.width # pixels.shape[1] \/ w.height # pixels.shape[2]
    THEN Outcome(w, hp, ds, fs, "G2S:dimensions_mismatch")
    ELSE IF ~InRange(channel, Len(w.channel_names)) \/ ~InRange(z_slice, w.z_slices)
            \/ ~InRange(position, w.positions) \/ ~InRange(frame, w.frames)
    THEN Outcome(w, hp, ds, fs, "G2S:invalid_coordinates")
    ELSE G2SSummarize(IF w.bit_depth # 0 THEN w
                      ELSE [w EXCEPT !.bit_depth = IF Len(pixels.shape) = 2
                                                   THEN ItemSize(pixels) * 8 ELSE 8],
                      hp, ds, fs, pixels, position, channel, z_slice, frame,
                      additional_meta, codec_ok)

----------------------------------------------------------------------------
(* reader.py: PosDatasetReader and DatasetReader                           *)

\* the summary fields PosDatasetReader._load_meta reads without a test
RequiredSummary == {"ChNames", "Slices", "Frames", "Positions", "Width", "Height", "PixelType"}

\* The text of a file.  A "sidecar" is json text, `json` being what it
\* denotes (None for the text "null"); "cut" is such a text without its final
\* closing brace, "cut_twice" without its last two closing braces; any other
\* text is no json.
\* json.loads(text)
Loads(text) ==
    IF text.kind = "sidecar" THEN [result |-> "ok", value |-> text.json]
    ELSE [result |-> "JSONDecodeError", value |-> None]

\* text + '}'
AppendBrace(text) ==
    CASE text.kind = "cut" -> [text EXCEPT !.kind = "sidecar"]
      [] text.kind = "cut_twice" -> [text EXCEPT !.kind = "cut"]
      [] OTHER -> [kind |-> "other"]

\* the try/except of _load_meta: json.loads(mdstr) and, if that raises
\* JSONDecodeError, json.loads(mdstr + '}')
LoadSidecar(text) ==
    IF Loads(text).result = "ok" THEN Loads(text) ELSE Loads(AppendBrace(text))

\* the rest of _load_meta once the text has been loaded as `loaded`: the
\* summary is looked up and its fields are read, those of `required` without
\* a test, the others with a fallback
ReadSummary(path, loaded, required) ==
    IF loaded = None THEN [result |-> "TypeError", r |-> None]
    ELSE IF KEY_SUMMARY \notin DOMAIN Val(loaded).at THEN [result |-> "KeyError", r |-> None]
    ELSE IF ~(required \subseteq DOMAIN Val(loaded).at[KEY_SUMMARY])
    THEN [result |-> "KeyError", r |-> None]
    ELSE
    LET metadata == Val(loaded)
        summary == metadata.at[KEY_SUMMARY]
    IN  [result |-> "ok",
         r |-> Some([path |-> path,
                     name |-> IF "Prefix" \in DOMAIN summary THEN summary.Prefix
                              ELSE path[Len(path)],
                     pixel_size_um |-> IF "PixelSize_um" \in DOMAIN summary
                                       THEN summary.PixelSize_um
                                       ELSE DefaultPixelSize,
                     channel_names |-> summary.ChNames,
                     z_slices |-> summary.Slices, frames |-> summary.Frames,
                     positions |-> summary.Positions,
                     width |-> summary.Width, height |-> summary.Height,
                     pixel_type |-> summary.PixelType,
                     bit_depth |-> IF "BitDepth" \in DOMAIN summary
                                   THEN summary.BitDepth ELSE 0,
                     metadata |-> metadata])]

\* the text of the sidecar of `path` is loaded and read, `required` being the
\* summary fields read without a test
LoadMeta(ds, fs, path, required) ==
    LET file == Join(path, METADATA_FILE_NAME)
    IN  IF file \in ds THEN [result |-> "IsADirectoryError", r |-> None]
        ELSE IF file \notin DOMAIN fs THEN [result |-> "FileNotFoundError", r |-> None]
        ELSE IF LoadSidecar(fs[file]).result # "ok"
        THEN [result |-> LoadSidecar(fs[file]).result, r |-> None]
        ELSE ReadSummary(path, LoadSidecar(fs[file]).value, required)

\* PosDatasetReader(path): __init__ and _load_meta
PosDatasetReader_init(ds, fs, path) == LoadMeta(ds, fs, path, RequiredSummary)

\* the summary fields G2SPosDatasetReaderS3._load_meta reads, all without a test
RequiredSummaryS3 == RequiredSummary \cup {"Prefix", "PixelSize_um", "BitDepth"}

\* G2SPosDatasetReaderS3(path, s3_bucket): __init__ and _load_meta, the objects
\* of the bucket being the files fs
G2SPosDatasetReaderS3_init(ds, fs, path) == LoadMeta(ds, fs, path, RequiredSummaryS3)

\* fk.startswith("FrameKey")
IsFrameKey(fk) == Len(fk) > 0 /\ fk[1] = "FrameKey"

\* PosDatasetReader.position_index
position_index(r) ==
    LET keys == SelectSeq(r.metadata.order, IsFrameKey)
    IN  IF keys = <<>> THEN [result |-> "G2S:position_index", value |-> 0]
        ELSE IF "PositionIndex" \notin DOMAIN r.metadata.at[keys[1]]
        THEN [result |-> "KeyError", value |-> 0]
        ELSE [result |-> "ok", value |-> r.metadata.at[keys[1]].PositionIndex]

\* list.index(cname) of _get_channel_index: the first index holding cname
FirstIndex(names, cname) ==
    LET at == {i \in DOMAIN names : names[i] = cname}
    IN  IF at = {} THEN None ELSE Some((CHOOSE i \in at : \A j \in at : i <= j) - 1)

\* PosDatasetReader._get_channel_index
get_channel_index(r, cindex, cname) ==
    IF cname # <<>> THEN FirstIndex(r.channel_names, cname) ELSE Some(cindex)

\* PosDatasetReader.image_metadata
PosDatasetReader_image_metadata(r, channel_index, channel_name, z_index, t_index) ==
    LET ch == get_channel_index(r, channel_index, channel_name)
        fail(what) == [result |-> what, value |-> EmptyDict]
    IN  IF ch = None THEN fail("G2S:channel_name")
        ELSE IF ~InRange(Val(ch), Len(r.channel_names)) \/ ~InRange(z_index, r.z_slices)
                  \/ ~InRange(t_index, r.frames)
        THEN fail("G2S:coordinates")
        ELSE IF get_frame_key(Val(ch), z_index, t_index) \notin DOMAIN r.metadata.at
        THEN fail("G2S:frame_key")
        ELSE [result |-> "ok",
              value |-> r.metadata.at[get_frame_key(Val(ch), z_index, t_index)]]

\* cv2.imread(image_path, IMREAD_UNCHANGED): the array, or None for a path that
\* holds no image
Imread(ds, fs, image_path) ==
    IF image_path \in DOMAIN fs /\ fs[image_path].kind = "image"
    THEN Some(fs[image_path].pixels) ELSE None

\* image_pixels, lines 159-164: the file named by the record under key is read;
\* `read` is the path given to cv2.imread, if it came to that
ReadPixels(r, ds, fs, key) ==
    IF key \notin DOMAIN r.metadata.at \/ "FileName" \notin DOMAIN r.metadata.at[key]
    THEN [result |-> "KeyError", value |-> None, read |-> None]
    ELSE IF Imread(ds, fs, Join(r.path, r.metadata.at[key].FileName)) = None
    THEN [result |-> "G2S:image_reference", value |-> None,
          read |-> Some(Join(r.path, r.metadata.at[key].FileName))]
    ELSE [result |-> "ok",
          value |-> Imread(ds, fs, Join(r.path, r.metadata.at[key].FileName)),
          read |-> Some(Join(r.path, r.metadata.at[key].FileName))]

\* image_pixels whose range test leaves out the channel
image_pixels_channel_untested(r, ds, fs, channel_index, channel_name, z_index, t_index) ==
    IF get_channel_index(r, channel_index, channel_name) = None
    THEN [result |-> "G2S:channel_name", value |-> None, read |-> None]
    ELSE IF ~InRange(z_index, r.z_slices) \/ ~InRange(t_index, r.frames)
    THEN [result |-> "G2S:coordinates", value |-> None, read |-> None]
    ELSE ReadPixels(r, ds, fs, get_frame_key(channel_index, z_index, t_index))

\* PosDatasetReader.image_pixels: the range test uses the resolved channel
\* index, the key is built from the channel_index argument
PosDatasetReader_image_pixels(r, ds, fs, channel_index, channel_name, z_index, t_index) ==
    LET ch == get_channel_index(r, channel_index, channel_name)
        fail(what) == [result |-> what, value |-> None, read |-> None]
    IN  IF ch = None THEN fail("G2S:channel_name")
        ELSE IF ~InRange(Val(ch), Len(r.channel_names)) \/ ~InRange(z_index, r.z_slices)
                  \/ ~InRange(t_index, r.frames)
        THEN fail("G2S:coordinates")
        ELSE ReadPixels(r, ds, fs, get_frame_key(channel_index, z_index, t_index))

\* the loop of DatasetReader._load_meta over the listed directories
RECURSIVE LoadPositions(_, _, _, _, _)
LoadPositions(ds, fs, path, list_of_dirs, positions) ==
    IF list_of_dirs = <<>> THEN [result |-> "ok", positions |-> positions]
    ELSE
    LET pds == PosDatasetReader_init(ds, fs, Join(path, Head(list_of_dirs)))
    IN  IF pds.result # "ok" THEN [result |-> pds.result, positions |-> positions]
        ELSE
        LET pi == position_index(Val(pds.r))
            slot == ListIndex(Len(positions), pi.value)
        IN  IF pi.result # "ok" THEN [result |-> pi.result, positions |-> positions]
            ELSE IF slot = None THEN [result |-> "IndexError", positions |-> positions]
            ELSE LoadPositions(ds, fs, path, Tail(list_of_dirs),
                               [positions EXCEPT ![Val(slot)] = pds.r])

\* DatasetReader(path): __init__ and _load_meta; listing is the order in which
\* os.listdir returns the entries of path
DatasetReader_init(ds, fs, path, listing) ==
    LET fail(what) == [result |-> what, r |-> None]
        list_of_dirs == SelectSeq(listing, LAMBDA n : Join(path, n) \in ds)
        loaded == LoadPositions(ds, fs, path, list_of_dirs,
                                [i \in 1..Len(list_of_dirs) |-> None])
    IN  IF path \in DOMAIN fs THEN fail("NotADirectoryError")
        ELSE IF path \notin ds THEN fail("FileNotFoundError")
        ELSE IF loaded.result # "ok" THEN fail(loaded.result)
        ELSE IF Len(loaded.positions) = 0 THEN fail("G2S:not_identified")
        ELSE [result |-> "ok",
              r |-> Some([positions |-> loaded.positions, path |-> path,
                          name |-> path[Len(path)]])]

\* DatasetReader.image_metadata
DatasetReader_image_metadata(r, position_index_, channel_index, channel_name, z_index, t_index) ==
    LET slot == ListIndex(Len(r.positions), position_index_)
        fail(what) == [result |-> what, value |-> EmptyDict]
    IN  IF slot = None THEN fail("IndexError")
        ELSE IF r.positions[Val(slot)] = None THEN fail("AttributeError")
        ELSE PosDatasetReader_image_metadata(Val(r.positions[Val(slot)]), channel_index,
                                             channel_name, z_index, t_index)

\* DatasetReader.image_pixels
DatasetReader_image_pixels(r, ds, fs, position_index_, channel_index, channel_name, z_index, t_index) ==
    LET slot == ListIndex(Len(r.positions), position_index_)
        fail(what) == [result |-> what, value |-> None, read |-> None]
    IN  IF slot = None THEN fail("IndexError")
        ELSE IF r.positions[Val(slot)] = None THEN fail("AttributeError")
        ELSE PosDatasetReader_image_pixels(Val(r.positions[Val(slot)]), ds, fs, channel_index,
                                           channel_name, z_index, t_index)

\* DatasetReader.get_position_dataset(position_index).position_index()
DatasetReader_position_index(r, position_index_) ==
    LET slot == ListIndex(Len(r.positions), position_index_)
    IN  IF slot = None THEN [result |-> "IndexError", value |-> 0]
        ELSE IF r.positions[Val(slot)] = None THEN [result |-> "AttributeError", value |-> 0]
        ELSE position_index(Val(r.positions[Val(slot)]))

----------------------------------------------------------------------------
(* The calling program: what it passes, and the state it starts from.      *)

DatasetName == <<"ds">>
DatasetPath == Join(RootPath, DatasetName)

\* (width, height, pixel_type, bit_depth) passed to initialize
InitializeArgs ==
    { <<0, 0, PIX_TYPE_NONE, 0>>, <<3, 2, PIX_TYPE_NONE, 0>>,
      <<3, 2, PIX_TYPE_GRAY_16, 0>>, <<3, 2, PIX_TYPE_GRAY_16, 14>> }
PixelSizes == { 5 }

DAPI == ChannelDef(<<"DAPI">>, 1)
Cy5 == ChannelDef(<<"Cy5">>, 2)
\* a list of the declared length and one that is shorter
ChannelLists == { [i \in 1..MaxChannels |-> IF i = 1 THEN DAPI ELSE Cy5], <<DAPI>> }

PositionNames == { <<>>, <<"A">> }
WriterNames == { <<"A">> }

\* numpy arrays: 3 columns by 2 rows of uint16, the same with 2 columns, and
\* 3 by 2 of uint8
Image16 == [dtype |-> "uint16", shape |-> <<2, 3>>, data |-> "a"]
Narrow16 == [dtype |-> "uint16", shape |-> <<2, 2>>, data |-> "a"]
Image8 == [dtype |-> "uint8", shape |-> <<2, 3>>, data |-> "a"]

\* what lies under the root directory before the program starts
EmptyLayout == [dirs |-> {WorkDir, RootPath}, files |-> [p \in {} |-> [kind |-> "other"]]]
Layouts ==
    LET old == Join(DatasetPath, <<"old">>)
        misc == Join(DatasetPath, <<"misc">>)
        stray == Join(DatasetPath, <<"notes.txt">>)
        text == [kind |-> "other"]
        sidecar == [kind |-> "sidecar", json |-> None]
    IN  { EmptyLayout,
          [dirs |-> {WorkDir, RootPath}, files |-> [p \in {DatasetPath} |-> text]],
          [dirs |-> {WorkDir, RootPath, DatasetPath}, files |-> [p \in {} |-> text]],
          [dirs |-> {WorkDir, RootPath, DatasetPath}, files |-> [p \in {stray} |-> text]],
          [dirs |-> {WorkDir, RootPath, DatasetPath, misc}, files |-> [p \in {} |-> text]],
          [dirs |-> {WorkDir, RootPath, DatasetPath, old},
           files |-> [p \in {Join(old, METADATA_FILE_NAME)} |-> sidecar]],
          [dirs |-> {WorkDir, RootPath, DatasetPath, old, misc},
           files |-> [p \in {Join(old, METADATA_FILE_NAME)} |-> sidecar]] }

NoCall == [op |-> "none", result |-> "ok", tags |-> {}]

\* What the driven writer has accepted: an open, a close since that open, an
\* initialize; and, for a scripted program, the coordinates add_image has been
\* called with, whether one of them was used twice, and the latest of them;
\* `stored` holds the positions for which an add_image has returned normally
\* since the last open.
NoHistory ==
    [opened |-> FALSE, closed |-> FALSE, initialized |-> FALSE, written |-> {},
     repeated |-> FALSE, last |-> <<>>, stored |-> {}]
After(op, result) ==
    IF result # "ok" THEN hist
    ELSE CASE op = "open" -> [hist EXCEPT !.opened = TRUE, !.closed = FALSE, !.stored = {}]
           [] op = "close" -> [hist EXCEPT !.closed = TRUE]
           [] op = "initialize" -> [hist EXCEPT !.initialized = TRUE]
           [] OTHER -> hist

\* The programs explored.  A program drives one object; it opens it with
\* `shape` and the dict `summary` (None or the caller's dict S), passes one of
\* `inits` to initialize, one of `pixel_sizes` to set_pixel_size and one of
\* `channel_lists` to set_channel_data, adds the arrays `images` under the
\* position names `names` with the dict `image_meta` (None or the caller's dict
\* M), starts on one of `layouts` and meets the verdicts `codecs` of the image
\* codec.
Plain ==
    [object |-> "DatasetWriter", shape |-> [P |-> MaxPositions, C |-> 1, Z |-> 1, T |-> 1],
     summary |-> None, inits |-> { <<3, 2, PIX_TYPE_GRAY_16, 14>> },
     pixel_sizes |-> {}, channel_lists |-> {}, images |-> {Image16},
     names |-> { <<>> }, image_meta |-> None, layouts |-> {EmptyLayout},
     codecs |-> {TRUE}]

Clients ==
    LET wide == [P |-> 1, C |-> MaxChannels, Z |-> 1, T |-> 1]
    IN  { [Plain EXCEPT !.object = "PosDatasetWriter", !.shape = wide,
                        !.inits = InitializeArgs, !.pixel_sizes = PixelSizes,
                        !.channel_lists = ChannelLists,
                        !.images = {Image16, Narrow16, Image8}, !.codecs = BOOLEAN],
          [Plain EXCEPT !.object = "PosDatasetWriter", !.summary = Some(RefS)],
          [Plain EXCEPT !.layouts = Layouts],
          [Plain EXCEPT !.inits = InitializeArgs],
          [Plain EXCEPT !.images = {Image16, Narrow16}],
          [Plain EXCEPT !.names = PositionNames],
          [Plain EXCEPT !.shape = wide, !.pixel_sizes = PixelSizes,
                        !.channel_lists = ChannelLists],
          [Plain EXCEPT !.summary = Some(RefS)],
          [Plain EXCEPT !.image_meta = Some(RefM)] }

\* (position, channel, z_slice, frame): every coordinate of the shape, and
\* one coordinate out of range at a time
CoordArgs ==
    { <<p, c, 0, 0>> : p \in 0..(client.shape.P - 1), c \in 0..(client.shape.C - 1) }
      \cup { <<-1, 0, 0, 0>>, <<client.shape.P, 0, 0, 0>>, <<0, client.shape.C, 0, 0>>,
             <<0, 0, -1, 0>>, <<0, 0, 0, 1>> }

\* the add_image calls of the program: (pixels, coordinate, additional_meta,
\* verdict of the codec)
AddImageArgs ==
    ((client.images \ {Image8}) \X CoordArgs \X {client.image_meta} \X client.codecs)
      \cup ((client.images \cap {Image8}) \X {<<0, 0, 0, 0>>} \X {client.image_meta} \X {TRUE})

\* the dicts that exist when the program starts: the empty dict, the caller's
\* S and M, and the dict the directly driven writer creates for itself
InitialHeap ==
    [r \in {RefE, RefS, RefM, OwnRef("solo")} |->
       CASE r = RefS -> [Description |-> <<"Test data set">>]
         [] r = RefM -> [ElapsedTime_ms |-> 500]
         [] OTHER -> EmptyDict]

Init ==
    /\ client \in Clients
    /\ \E l \in client.layouts :
          /\ dirs = l.dirs
          /\ files = l.files
    /\ heap = InitialHeap
    /\ pw = PosDatasetWriter_init("solo")
    /\ dw = DatasetWriter_init
    /\ pc = "free"
    /\ rd = None
    /\ hist = NoHistory
    /\ ret = NoCall

----------------------------------------------------------------------------
(* Calls on the PosDatasetWriter the program drives directly.              *)

\* the call op has returned o: the writer, the dicts and the file system are
\* as the call left them
PW_did(op, o, tags) ==
    /\ pw' = o.w
    /\ heap' = o.heap
    /\ dirs' = o.dirs
    /\ files' = o.files
    /\ ret' = [op |-> op, result |-> o.result, tags |-> tags]
    /\ hist' = After(op, o.result)
    /\ UNCHANGED <<client, dw, pc, rd>>

\* the same for a call that touches the writer only
PW_set(op, o) ==
    /\ pw' = o.w
    /\ ret' = [op |-> op, result |-> o.result, tags |-> {}]
    /\ hist' = After(op, o.result)
    /\ UNCHANGED <<client, dirs, files, heap, dw, pc, rd>>

PW_open ==
    /\ client.object = "PosDatasetWriter"
    /\ \E name \in WriterNames :
          PW_did("open",
                 PosDatasetWriter_open(pw, heap, dirs, files, Some(RootPath), name,
                                       client.shape.P, client.shape.C, client.shape.Z,
                                       client.shape.T, client.summary),
                 {})

PW_initialize ==
    /\ client.object = "PosDatasetWriter"
    /\ \E a \in client.inits :
          PW_set("initialize", PosDatasetWriter_initialize(pw, a[1], a[2], a[3], a[4], 1))

PW_close ==
    /\ client.object = "PosDatasetWriter"
    /\ PW_did("close", PosDatasetWriter_close(pw, heap, dirs, files), {})

PW_save_metadata ==
    /\ client.object = "PosDatasetWriter"
    /\ PW_did("save_metadata", PosDatasetWriter_save_metadata(pw, heap, dirs, files), {})

PW_set_pixel_size ==
    /\ client.object = "PosDatasetWriter"
    /\ \E v \in client.pixel_sizes :
          PW_set("set_pixel_size", PosDatasetWriter_set_pixel_size(pw, v))

PW_set_channel_data ==
    /\ client.object = "PosDatasetWriter"
    /\ \E cl \in client.channel_lists :
          PW_set("set_channel_data", PosDatasetWriter_set_channel_data(pw, cl))

\* the call is one that the tests of add_image let through: the array's type and
\* size are the writer's, the coordinates lie in the declared ranges
Acceptable(w, pixels, position, channel, z_slice, frame) ==
    /\ InferPixelType(pixels) = w.pixel_type
    /\ w.width = pixels.shape[2] /\ w.height = pixels.shape[1]
    /\ InRange(channel, Len(w.channel_defs)) /\ InRange(z_slice, w.z_slices)
    /\ InRange(position, w.positions) /\ InRange(frame, w.frames)

\* the array has the type and size of an opened, initialized writer that is
\* not closed, and a coordinate lies outside the declared ranges
Outside(w, pixels, position, channel, z_slice, frame) ==
    /\ hist.opened /\ hist.initialized /\ ~hist.closed
    /\ InferPixelType(pixels) = w.pixel_type
    /\ w.width = pixels.shape[2] /\ w.height = pixels.shape[1]
    /\ ~(/\ InRange(channel, Len(w.channel_defs)) /\ InRange(z_slice, w.z_slices)
          /\ InRange(position, w.positions) /\ InRange(frame, w.frames))

PW_add_image ==
    /\ client.object = "PosDatasetWriter"
    /\ \E a \in AddImageArgs :
          PW_did("add_image",
                 PosDatasetWriter_add_image("solo", pw, heap, dirs, files, a[1], a[2][1],
                                            a[2][2], a[2][3], a[2][4], a[3], a[4]),
                 (IF Acceptable(pw, a[1], a[2][1], a[2][2], a[2][3], a[2][4]) /\ a[4]
                  THEN {"acceptable"} ELSE {})
                   \cup (IF Outside(pw, a[1], a[2][1], a[2][2], a[2][3], a[2][4])
                         THEN {"outside"} ELSE {}))

----------------------------------------------------------------------------
(* Calls on the DatasetWriter.                                             *)

\* the call is one that the tests of add_image let through: the array's type and
\* size are those given to DatasetWriter.initialize, the coordinates lie in
\* the ranges given to DatasetWriter.open
Declared(d, pixels, position, channel, z_slice, frame) ==
    /\ InferPixelType(pixels) = d.pixel_type
    /\ d.width = pixels.shape[2] /\ d.height = pixels.shape[1]
    /\ InRange(channel, Len(d.channel_defs)) /\ InRange(z_slice, d.z_slices)
    /\ InRange(position, Len(d.positions)) /\ InRange(frame, d.frames)

\* the call has the declared type and coordinates within the declared ranges,
\* but an array of another size than the one given to DatasetWriter.initialize
OtherSize(d, pixels, position, channel, z_slice, frame) ==
    /\ InferPixelType(pixels) = d.pixel_type
    /\ d.width # pixels.shape[2] \/ d.height # pixels.shape[1]
    /\ InRange(channel, Len(d.channel_defs)) /\ InRange(z_slice, d.z_slices)
    /\ InRange(position, Len(d.positions)) /\ InRange(frame, d.frames)

\* what kind of add_image call this is for a DatasetWriter in state d
Kind(d, pixels, position_name, co, codec_ok) ==
    (IF Declared(d, pixels, co[1], co[2], co[3], co[4]) /\ position_name = <<>> /\ codec_ok
     THEN {"acceptable"} ELSE {})
      \cup (IF OtherSize(d, pixels, co[1], co[2], co[3], co[4]) /\ position_name = <<>>
            THEN {"other_size"} ELSE {})
      \cup (IF Outside([d EXCEPT !.positions = Len(d.positions)], pixels,
                       co[1], co[2], co[3], co[4])
            THEN {"outside"} ELSE {})

\* the call op has returned o; the program stands at `at` afterwards and its
\* history is h
DW_did(op, o, tags, h, at) ==
    /\ dw' = o.w
    /\ heap' = o.heap
    /\ dirs' = o.dirs
    /\ files' = o.files
    /\ ret' = [op |-> op, result |-> o.result, tags |-> tags]
    /\ hist' = [After(op, o.result) EXCEPT !.written = h.written, !.repeated = h.repeated,
                                           !.last = h.last]
    /\ pc' = IF o.result # "ok" /\ pc # "free" /\ op \in {"open", "initialize"}
             THEN "stopped" ELSE at
    /\ UNCHANGED <<client, pw, rd>>

\* the same for a call that touches the writer only
DW_set(op, o, at) ==
    /\ dw' = o.w
    /\ ret' = [op |-> op, result |-> o.result, tags |-> {}]
    /\ hist' = After(op, o.result)
    /\ pc' = IF o.result # "ok" /\ pc # "free" /\ op \in {"open", "initialize"}
             THEN "stopped" ELSE at
    /\ UNCHANGED <<client, dirs, files, heap, pw, rd>>

DW_open ==
    /\ client.object = "DatasetWriter"
    /\ \E overwrite \in BOOLEAN :
       \E first \in IF Listdir(dirs, files, DatasetPath) = {} THEN {None}
                    ELSE {Some(n) : n \in Listdir(dirs, files, DatasetPath)} :
          DW_did("open",
                 DatasetWriter_open(dw, heap, dirs, files, RootPath, DatasetName,
                                    client.shape.P, client.shape.C, client.shape.Z,
                                    client.shape.T, overwrite, client.summary, first),
                 (IF overwrite THEN {"overwrite"} ELSE {})
                    \cup (IF Exists(dirs, files, DatasetPath) THEN {"existing"} ELSE {}),
                 hist, pc)

DW_initialize ==
    /\ client.object = "DatasetWriter"
    /\ \E a \in client.inits :
          DW_set("initialize", DatasetWriter_initialize(dw, a[1], a[2], a[3], a[4]), pc)

DW_set_channel_data ==
    /\ client.object = "DatasetWriter"
    /\ \E cl \in client.channel_lists :
          DW_set("set_channel_data", DatasetWriter_set_channel_data(dw, cl), pc)

DW_set_pixel_size ==
    /\ client.object = "DatasetWriter"
    /\ \E v \in client.pixel_sizes :
          DW_set("set_pixel_size", DatasetWriter_set_pixel_size(dw, v), pc)

\* add_image has returned o; the call is remembered with its arguments
DW_added(a, position_name, o) ==
    /\ dw' = o.w
    /\ heap' = o.heap
    /\ dirs' = o.dirs
    /\ files' = o.files
    /\ ret' = [op |-> "add_image", result |-> o.result,
               tags |-> Kind(dw, a[1], position_name, a[2], a[4]),
               args |-> [pixels |-> a[1], position |-> a[2][1],
                         position_name |-> position_name, channel |-> a[2][2],
                         z_slice |-> a[2][3], frame |-> a[2][4], codec_ok |-> a[4]]]
    /\ hist' = IF o.result = "ok" THEN [hist EXCEPT !.stored = @ \cup {a[2][1]}] ELSE hist
    /\ UNCHANGED <<client, pw, rd, pc>>

DW_add_image ==
    /\ client.object = "DatasetWriter"
    /\ \E a \in AddImageArgs, position_name \in client.names :
          DW_added(a, position_name,
                   DatasetWriter_add_image(dw, heap, dirs, files, a[1], a[2][1], position_name,
                                           a[2][2], a[2][3], a[2][4], a[3], a[4]))

DW_close ==
    /\ client.object = "DatasetWriter"
    /\ DW_did("close", DatasetWriter_close(dw, heap, dirs, files), {}, hist, pc)

Next ==
    \/ PW_open
    \/ PW_initialize
    \/ PW_close
    \/ PW_save_metadata
    \/ PW_set_pixel_size
    \/ PW_set_channel_data
    \/ PW_add_image
    \/ DW_open
    \/ DW_initialize
    \/ DW_set_channel_data
    \/ DW_set_pixel_size
    \/ DW_add_image
    \/ DW_close

Spec == Init /\ [][Next]_vars

----------------------------------------------------------------------------
(* A scripted program: it writes a dataset through a DatasetWriter, then    *)
(* opens a DatasetReader on it.  An error raised by a call is caught and    *)
(* the script goes on, except that it stops when open or initialize fails.  *)

Scripts ==
    { [Plain EXCEPT !.object = "script", !.shape = sh, !.summary = sm, !.image_meta = im,
                    !.pixel_sizes = PixelSizes, !.channel_lists = ChannelLists] :
        sh \in { [P |-> MaxPositions, C |-> MaxChannels, Z |-> 1, T |-> 1],
                 [P |-> 1, C |-> 1, Z |-> 2, T |-> 2] },
        sm \in {None, Some(RefS)}, im \in {None, Some(RefM)} }

\* every coordinate within the shape the script opens the writer with
Coordinates ==
    (0..(client.shape.P - 1)) \X (0..(client.shape.C - 1))
       \X (0..(client.shape.Z - 1)) \X (0..(client.shape.T - 1))

\* the orders in which os.listdir may return the names S
Listings(S) ==
    {f \in [1..Cardinality(S) -> S] : \A i, j \in DOMAIN f : i # j => f[i] # f[j]}

ScriptInit ==
    /\ client \in Scripts
    /\ dirs = EmptyLayout.dirs
    /\ files = EmptyLayout.files
    /\ heap = InitialHeap
    /\ pw = PosDatasetWriter_init("solo")
    /\ dw = DatasetWriter_init
    /\ pc = "open"
    /\ rd = None
    /\ hist = NoHistory
    /\ ret = NoCall

S_open ==
    /\ pc = "open"
    /\ DW_did("open",
              DatasetWriter_open(dw, heap, dirs, files, RootPath, DatasetName,
                                 client.shape.P, client.shape.C, client.shape.Z,
                                 client.shape.T, FALSE, client.summary, None),
              {}, hist, "initialize")

S_initialize ==
    /\ pc = "initialize"
    /\ \E a \in client.inits :
          DW_set("initialize", DatasetWriter_initialize(dw, a[1], a[2], a[3], a[4]),
                 "set_pixel_size")

S_set_pixel_size ==
    /\ pc = "set_pixel_size"
    /\ \E v \in client.pixel_sizes :
          DW_set("set_pixel_size", DatasetWriter_set_pixel_size(dw, v), "set_channel_data")

S_set_channel_data ==
    /\ pc = "set_channel_data"
    /\ \E cl \in client.channel_lists :
          DW_set("set_channel_data", DatasetWriter_set_channel_data(dw, cl), "add_image")

\* one add_image with the declared array at a coordinate of the shape; a
\* coordinate may be written again
S_add_image ==
    /\ pc = "add_image"
    /\ \E px \in client.images, co \in Coordinates :
          DW_did("add_image",
                 DatasetWriter_add_image(dw, heap, dirs, files, px, co[1], <<>>, co[2],
                                         co[3], co[4], client.image_meta, TRUE),
                 Kind(dw, px, <<>>, co, TRUE)
                    \cup (IF co \in hist.written THEN {"repeat"} ELSE {}),
                 [hist EXCEPT !.written = @ \cup {co}, !.repeated = @ \/ co \in hist.written,
                              !.last = co],
                 "add_image")

\* close, once add_image has been called at every coordinate
S_close ==
    /\ pc = "add_image"
    /\ hist.written = Coordinates
    /\ DW_did("close", DatasetWriter_close(dw, heap, dirs, files), {}, hist, "read")

\* the script has constructed the DatasetReader, with outcome o
S_did(o) ==
    /\ rd' = o.r
    /\ ret' = [op |-> "read", result |-> o.result, tags |-> {}]
    /\ pc' = "done"
    /\ UNCHANGED <<client, dirs, files, heap, pw, dw, hist>>

\* DatasetReader(path) on the directory just written
S_read ==
    /\ pc = "read"
    /\ \E listing \in Listings(Listdir(dirs, files, DatasetPath)) :
          S_did(DatasetReader_init(dirs, files, DatasetPath, listing))

ScriptNext ==
    \/ S_open
    \/ S_initialize
    \/ S_set_pixel_size
    \/ S_set_channel_data
    \/ S_add_image
    \/ S_close
    \/ S_read

SpecScript == ScriptInit /\ [][ScriptNext]_vars

----------------------------------------------------------------------------
(* Reading: the datasets found on disk and the calls on the readers.       *)

\* largest number of frames of a dataset on disk
MaxFrames == 2
\* a number of channels beyond MaxChannels
ManyChannels == 5

\* the name of channel i (counted from 1) of a dataset on disk
ChannelName(i) ==
    CASE i = 1 -> <<"DAPI">> [] i = 2 -> <<"Cy5">> [] OTHER -> <<"Channel-">> \o Str(i - 1)

\* the (channel, slice, frame) triples of n channels, one slice and MaxFrames
\* frames, in the order of acquisition
Keys(n) ==
    [i \in 1..(n * MaxFrames) |-> <<(i - 1) \div MaxFrames, 0, (i - 1) % MaxFrames>>]

\* A position directory on disk, d: its channel names, slices, frames, its
\* position index, the triples `keys` it holds a record and an image file
\* for, in the order of the sidecar, and the triples `legacy` whose record
\* carries no PositionIndex field.
\* The summary of d holds every field but those of d.lacking.
CompleteSummary(d) ==
    [Prefix |-> <<"scan">>, PixelSize_um |-> 2, BitDepth |-> 14,
     ChNames |-> d.names, Slices |-> d.slices, Frames |-> d.frames, Positions |-> d.declared,
     Width |-> 3, Height |-> 2, PixelType |-> PIX_TYPE_GRAY_16]

DiskSummary(d) ==
    [f \in (DOMAIN CompleteSummary(d)) \ d.lacking |-> CompleteSummary(d)[f]]

\* the summary fields other than the counts of the coordinates and the pixel type
OptionalSummary == {"Prefix", "PixelSize_um", "BitDepth", "Width", "Height"}

\* d with a summary that lacks the fields S
Lacking(d, S) == [d EXCEPT !.lacking = S]

\* d as one of n positions the dataset was declared with
Declaring(d, n) == [d EXCEPT !.declared = n]

DiskRecord(d, k) ==
    LET full == [PositionIndex |-> d.position, ChannelIndex |-> k[1], SliceIndex |-> k[2],
                 FrameIndex |-> k[3], Channel |-> d.names[k[1] + 1],
                 FileName |-> ImageFileName(k[3], d.names[k[1] + 1], k[2])]
    IN  IF k \in d.legacy THEN [f \in (DOMAIN full) \ {"PositionIndex"} |-> full[f]]
        ELSE full

\* the json text of the sidecar of d: Summary, then the records
DiskSidecar(d) ==
    LET key(i) == IF d.form = 4
                  THEN FrameKey4(d.position, d.keys[i][1], d.keys[i][2], d.keys[i][3])
                  ELSE get_frame_key(d.keys[i][1], d.keys[i][2], d.keys[i][3])
        at(fk) == CHOOSE i \in DOMAIN d.keys : key(i) = fk
    IN  IF d.text = "other" THEN [kind |-> "other"]
        ELSE
        [kind |-> d.text,
         json |-> Some([order |-> <<KEY_SUMMARY>> \o [i \in DOMAIN d.keys |-> key(i)],
                        at |-> [fk \in {KEY_SUMMARY} \cup {key(i) : i \in DOMAIN d.keys} |->
                                  IF fk = KEY_SUMMARY THEN DiskSummary(d)
                                  ELSE DiskRecord(d, d.keys[at(fk)])]])]

\* the files of position directory dir holding d: the sidecar and the images,
\* each image being known by its file name
PositionFiles(dir, d) ==
    [p \in {Join(dir, METADATA_FILE_NAME)}
             \cup {Join(dir, DiskRecord(d, d.keys[i]).FileName) : i \in DOMAIN d.keys} |->
       IF p = Join(dir, METADATA_FILE_NAME) THEN DiskSidecar(d)
       ELSE [kind |-> "image",
             pixels |-> [dtype |-> "uint16", shape |-> <<2, 3>>, data |-> p[Len(p)]]]]

\* the dataset directory holding the position directories P, a set of
\* <<directory name, d>>
DiskLayout(P) ==
    [dirs |-> {WorkDir, RootPath, DatasetPath} \cup {Join(DatasetPath, x[1]) : x \in P},
     files |-> [p \in UNION {DOMAIN PositionFiles(Join(DatasetPath, x[1]), x[2]) : x \in P} |->
                  LET x == CHOOSE y \in P :
                              p \in DOMAIN PositionFiles(Join(DatasetPath, y[1]), y[2])
                  IN  PositionFiles(Join(DatasetPath, x[1]), x[2])[p]]]

\* position directories: complete, sparse (one record), without records,
\* with records of an older producer first or throughout, and complete ones
\* whose sidecar text lacks its final closing brace ("cut"), its last two
\* closing braces ("cut_twice") or is garbled otherwise, and complete ones
\* whose sidecar keys the records in the form that embeds the position
\* ("keyed4")
DiskPosition(n, position, kind) ==
    [names |-> [i \in 1..n |-> ChannelName(i)], slices |-> 1, frames |-> MaxFrames,
     position |-> position, declared |-> 1,
     lacking |-> {"Prefix", "PixelSize_um", "BitDepth"},
     form |-> IF kind = "keyed4" THEN 4 ELSE 3,
     text |-> CASE kind \in {"cut", "cut_twice"} -> kind
                [] kind = "garbled" -> "other"
                [] OTHER -> "sidecar",
     keys |-> CASE kind = "sparse" -> IF n = 0 THEN <<>> ELSE <<Keys(n)[Len(Keys(n)) - 1]>>
                [] kind = "empty" -> <<>>
                [] OTHER -> Keys(n),
     legacy |-> CASE kind = "legacy_first" -> IF n = 0 THEN {} ELSE {Keys(n)[1]}
                  [] kind = "legacy_all" -> {Keys(n)[i] : i \in DOMAIN Keys(n)}
                  [] OTHER -> {}]

\* the name a position gets when the caller supplies none
DefaultName(position) == <<"Pos-">> \o Str(position)

PosA == <<"Pos-", "A">>
PosB == <<"Pos-", "B">>


\* what a PosDatasetWriter leaves on disk when it is opened with as many
\* channels as cl has, initialized, given cl by set_channel_data before (or,
\* if late, after) its first add_image, and closed
SetChannels(w, cl, now) == IF now THEN PosDatasetWriter_set_channel_data(w, cl).w ELSE w

AddFirst(w, o, cl, late) ==
    PosDatasetWriter_add_image("solo", SetChannels(w, cl, ~late), o.heap, o.dirs, o.files,
                               Image16, 0, 0, 0, 0, None, TRUE)

CloseWritten(a, cl, late) ==
    PosDatasetWriter_close(SetChannels(a.w, cl, late), a.heap, a.dirs, a.files)

InitializeOpened(o, cl, late) ==
    CloseWritten(AddFirst(PosDatasetWriter_initialize(o.w, 3, 2, PIX_TYPE_GRAY_16, 14, 1).w,
                          o, cl, late),
                 cl, late)

WrittenLayout(cl, late) ==
    InitializeOpened(PosDatasetWriter_open(PosDatasetWriter_init("solo"), InitialHeap,
                                           EmptyLayout.dirs \cup {DatasetPath},
                                           EmptyLayout.files, Some(DatasetPath), PosA, 1, Len(cl), 1, 1, None),
                     cl, late)

\* The reading programs explored.  A program constructs `object` on `path` of
\* the file system `layout`; `supplied` is the channel list the writer of the
\* dataset was given by set_channel_data, if a writer of this library wrote it,
\* and `late` tells that it was given after the first add_image.
PositionReaders ==
    { [object |-> "PosDatasetReader", path |-> Join(DatasetPath, PosA), supplied |-> None,
       late |-> FALSE,
       layout |-> DiskLayout({<<PosA, DiskPosition(n, 0, kind)>>})] :
         n \in {0, 1, MaxChannels, ManyChannels},
         kind \in {"full", "sparse", "empty", "legacy_first", "legacy_all",
                   "cut", "cut_twice", "garbled", "keyed4"} }

\* position directories whose summary lacks some of the optional fields, read
\* from the local disk or from a bucket
SummaryReaders ==
    { [object |-> o, path |-> Join(DatasetPath, PosA), supplied |-> None, late |-> FALSE,
       layout |-> DiskLayout({<<PosA, Lacking(DiskPosition(1, 0, "full"), S)>>})] :
         o \in {"PosDatasetReader", "G2SPosDatasetReaderS3"}, S \in SUBSET OptionalSummary }

WrittenReaders ==
    { [object |-> "PosDatasetReader", path |-> Join(DatasetPath, PosA), supplied |-> Some(cl),
       late |-> late,
       layout |-> [dirs |-> WrittenLayout(cl, late).dirs,
                   files |-> WrittenLayout(cl, late).files]] :
         cl \in {<<DAPI, Cy5>>, <<Cy5, DAPI>>, <<DAPI>>}, late \in BOOLEAN }

DatasetReaders ==
    { [object |-> "DatasetReader", path |-> DatasetPath, supplied |-> None, late |-> FALSE,
       layout |-> DiskLayout(P)] :
         P \in { {}, {<<PosA, DiskPosition(MaxChannels, 0, "full")>>},
                 {<<PosA, DiskPosition(MaxChannels, 0, "legacy_first")>>},
                 {<<PosA, DiskPosition(MaxChannels, 0, "full")>>,
                  <<PosB, DiskPosition(MaxChannels, 1, "sparse")>>},
                 {<<PosA, DiskPosition(MaxChannels, 1, "full")>>,
                  <<PosB, DiskPosition(MaxChannels, 0, "full")>>},
                 {<<PosA, DiskPosition(MaxChannels, 0, "full")>>,
                  <<PosB, DiskPosition(MaxChannels, 0, "sparse")>>},
                 {<<PosA, DiskPosition(MaxChannels, 0, "full")>>,
                  <<PosB, DiskPosition(MaxChannels, -1, "full")>>},
                 {<<PosA, DiskPosition(MaxChannels, 0, "full")>>,
                  <<PosB, DiskPosition(MaxChannels, 2, "full")>>} } }

\* datasets declared with MaxPositions positions of which one was written and
\* closed: the first, or the last
PartialReaders ==
    { [object |-> "DatasetReader", path |-> DatasetPath, supplied |-> None, late |-> FALSE,
       layout |-> DiskLayout({<<DefaultName(i), Declaring(DiskPosition(MaxChannels, i, "full"),
                                                          MaxPositions)>>})] :
         i \in {0, MaxPositions - 1} }

\* (channel_index, channel_name, z_index, t_index) of a call on a position
\* reader, and the position_index arguments of a call on a DatasetReader
ReadArgs ==
    {-1, 0, 1, MaxChannels, ManyChannels} \X {<<>>, <<"DAPI">>, <<"Cy5">>, <<"GFP">>}
       \X {-1, 0, 1} \X (0..MaxFrames)
DatasetReadArgs == {a \in ReadArgs : a[1] \in {0, 1} /\ a[3] = 0}
PositionArgs == -1..MaxPositions

ReadInit ==
    /\ client \in PositionReaders \cup SummaryReaders \cup WrittenReaders \cup DatasetReaders
                   \cup PartialReaders
    /\ dirs = client.layout.dirs
    /\ files = client.layout.files
    /\ heap = InitialHeap
    /\ pw = PosDatasetWriter_init("solo")
    /\ dw = DatasetWriter_init
    /\ pc = "construct"
    /\ rd = None
    /\ hist = NoHistory
    /\ ret = NoCall

\* the constructor has returned o
R_made(op, o) ==
    /\ rd' = o.r
    /\ ret' = [op |-> op, result |-> o.result, tags |-> {}, args |-> <<>>, out |-> o]
    /\ pc' = IF o.result = "ok" THEN "free" ELSE "stopped"
    /\ UNCHANGED <<client, dirs, files, heap, pw, dw, hist>>

\* the call op(args) on the reader has returned o
R_did(op, args, o) ==
    /\ ret' = [op |-> op, result |-> o.result, tags |-> {}, args |-> args, out |-> o]
    /\ pc' = "called"
    /\ UNCHANGED <<client, dirs, files, heap, pw, dw, rd, hist>>

\* the program has taken the result of its call and is free to call again
R_next ==
    /\ pc = "called"
    /\ pc' = "free"
    /\ ret' = NoCall
    /\ UNCHANGED <<client, dirs, files, heap, pw, dw, rd, hist>>

PR_construct ==
    /\ client.object = "PosDatasetReader" /\ pc = "construct"
    /\ R_made("PosDatasetReader", PosDatasetReader_init(dirs, files, client.path))

S3_construct ==
    /\ client.object = "G2SPosDatasetReaderS3" /\ pc = "construct"
    /\ R_made("G2SPosDatasetReaderS3", G2SPosDatasetReaderS3_init(dirs, files, client.path))

PR_position_index ==
    /\ client.object = "PosDatasetReader" /\ pc = "free"
    /\ R_did("position_index", <<>>, position_index(Val(rd)))

PR_get_channel_index ==
    /\ client.object = "PosDatasetReader" /\ pc = "free"
    /\ \E a \in ReadArgs :
          R_did("get_channel_index", <<a[1], a[2]>>,
                [result |-> IF get_channel_index(Val(rd), a[1], a[2]) = None
                            THEN "G2S:channel_name" ELSE "ok",
                 value |-> get_channel_index(Val(rd), a[1], a[2])])

PR_image_metadata ==
    /\ client.object = "PosDatasetReader" /\ pc = "free"
    /\ \E a \in ReadArgs :
          R_did("image_metadata", a,
                PosDatasetReader_image_metadata(Val(rd), a[1], a[2], a[3], a[4]))

PR_image_pixels ==
    /\ client.object = "PosDatasetReader" /\ pc = "free"
    /\ \E a \in ReadArgs :
          R_did("image_pixels", a,
                PosDatasetReader_image_pixels(Val(rd), dirs, files, a[1], a[2], a[3], a[4]))

DR_construct ==
    /\ client.object = "DatasetReader" /\ pc = "construct"
    /\ \E listing \in Listings(Listdir(dirs, files, client.path)) :
          R_made("DatasetReader", DatasetReader_init(dirs, files, client.path, listing))

DR_position_index ==
    /\ client.object = "DatasetReader" /\ pc = "free"
    /\ \E p \in PositionArgs :
          R_did("position_index", <<p>>, DatasetReader_position_index(Val(rd), p))

DR_image_metadata ==
    /\ client.object = "DatasetReader" /\ pc = "free"
    /\ \E p \in PositionArgs, a \in DatasetReadArgs :
          R_did("image_metadata", <<p>> \o a,
                DatasetReader_image_metadata(Val(rd), p, a[1], a[2], a[3], a[4]))

DR_image_pixels ==
    /\ client.object = "DatasetReader" /\ pc = "free"
    /\ \E p \in PositionArgs, a \in DatasetReadArgs :
          R_did("image_pixels", <<p>> \o a,
                DatasetReader_image_pixels(Val(rd), dirs, files, p, a[1], a[2], a[3], a[4]))

ReadNext ==
    \/ PR_construct
    \/ S3_construct
    \/ PR_position_index
    \/ PR_get_channel_index
    \/ PR_image_metadata
    \/ PR_image_pixels
    \/ DR_construct
    \/ DR_position_index
    \/ DR_image_metadata
    \/ DR_image_pixels
    \/ R_next

SpecRead == ReadInit /\ [][ReadNext]_vars

----------------------------------------------------------------------------
(* The coordinate key by itself: a program encodes one coordinate, and     *)
(* encodes it once more.                                                    *)

\* largest channel, slice or frame number of a coordinate that is encoded
MaxCoordinate == 11

\* the (channel, z_slice, frame) triples that are encoded
Triples == (0..MaxCoordinate) \X (0..MaxCoordinate) \X (0..MaxCoordinate)

KeyInit ==
    /\ client \in {[object |-> "get_frame_key", args |-> a] : a \in Triples}
    /\ dirs = EmptyLayout.dirs
    /\ files = EmptyLayout.files
    /\ heap = InitialHeap
    /\ pw = PosDatasetWriter_init("solo")
    /\ dw = DatasetWriter_init
    /\ pc = "encode"
    /\ rd = None
    /\ hist = NoHistory
    /\ ret = NoCall

\* get_frame_key(channel, z_slice, frame) has returned key; `before` is the
\* key of the call before this one, if there was one
K_did(key, before, at) ==
    /\ ret' = [op |-> "get_frame_key", result |-> "ok", tags |-> {}, args |-> client.args,
               out |-> key, before |-> before]
    /\ pc' = at
    /\ UNCHANGED <<client, dirs, files, heap, pw, dw, rd, hist>>

K_encode ==
    /\ client.object = "get_frame_key" /\ pc = "encode"
    /\ K_did(get_frame_key(client.args[1], client.args[2], client.args[3]), None, "encoded")

K_again ==
    /\ client.object = "get_frame_key" /\ pc = "encoded"
    /\ K_did(get_frame_key(client.args[1], client.args[2], client.args[3]), Some(ret.out),
             "done")

KeyNext ==
    \/ K_encode
    \/ K_again

SpecKey == KeyInit /\ [][KeyNext]_vars

----------------------------------------------------------------------------
(* Calls on a G2SPosDatasetWriter, in any order.  The variable pw holds the *)
(* writer.                                                                   *)

\* the programs: the image dimensions they declare, and whether they have a
\* dict M of their own to pass as additional_meta
G2SClients ==
    { [object |-> "G2SPosDatasetWriter",
       shape |-> [P |-> 1, C |-> MaxChannels, Z |-> 1, T |-> 1],
       dimensions |-> {<<2, 3, PIX_TYPE_GRAY_16>>, <<3, 2, PIX_TYPE_GRAY_16>>},
       image_meta |-> m] : m \in {None, Some(RefM)} }

\* (position, channel, z_slice, frame) of the add_image calls
G2SCoordArgs ==
    { <<0, c, 0, t>> : c \in 0..(client.shape.C - 1), t \in 0..(client.shape.T - 1) }
      \cup { <<1, 0, 0, 0>>, <<0, client.shape.C, 0, 0>> }

G2SInit ==
    /\ client \in G2SClients
    /\ dirs = EmptyLayout.dirs
    /\ files = EmptyLayout.files
    /\ heap = InitialHeap
    /\ pw = G2SPosDatasetWriter_init
    /\ dw = DatasetWriter_init
    /\ pc = "free"
    /\ rd = None
    /\ hist = NoHistory
    /\ ret = NoCall

G_create ==
    /\ client.object = "G2SPosDatasetWriter"
    /\ PW_did("create",
              G2SPosDatasetWriter_create(pw, heap, dirs, files, RootPath, PosA,
                                         client.shape.P, client.shape.C, client.shape.Z,
                                         client.shape.T),
              {})

G_set_image_dimensions ==
    /\ client.object = "G2SPosDatasetWriter"
    /\ \E a \in client.dimensions :
          PW_set("set_image_dimensions",
                 G2SPosDatasetWriter_set_image_dimensions(pw, a[1], a[2], a[3]))

G_add_image ==
    /\ client.object = "G2SPosDatasetWriter"
    /\ \E co \in G2SCoordArgs, m \in {None, client.image_meta} :
          PW_did("add_image",
                 G2SPosDatasetWriter_add_image(pw, heap, dirs, files, Image16, co[1], co[2],
                                               co[3], co[4], m, TRUE),
                 {})

G_close ==
    /\ client.object = "G2SPosDatasetWriter"
    /\ PW_did("close", G2SPosDatasetWriter_close(pw, heap, dirs, files), {})

G2SNext ==
    \/ G_create
    \/ G_set_image_dimensions
    \/ G_add_image
    \/ G_close

SpecG2S == G2SInit /\ [][G2SNext]_vars

----------------------------------------------------------------------------
(* What the specification says of the writers, stated over the model.      *)

\* the calls a writer may receive after open
LaterCalls ==
    {"add_image", "save_metadata", "initialize", "set_pixel_size", "set_channel_data", "close"}

\* the summary of position writer w has been materialised
Materialised(w, hp) == w.summary_meta # None /\ DOMAIN hp[Val(w.summary_meta)] # {}

\* width, height, pixel type and bit depth of a writer
Dimensions(w) == <<w.width, w.height, w.pixel_type, w.bit_depth>>
Unset == <<0, 0, PIX_TYPE_NONE, 0>>

\* the record the reader returns for coordinate co is the one add_image was
\* given for co
Returned(co) ==
    LET m == DatasetReader_image_metadata(Val(rd), co[1], co[2], <<>>, co[3], co[4])
    IN  /\ m.result = "ok"
        /\ m.value.PositionIndex = co[1] /\ m.value.ChannelIndex = co[2]
        /\ m.value.SliceIndex = co[3] /\ m.value.FrameIndex = co[4]
        /\ m.value.FileName = ImageFileName(co[4], m.value.Channel, co[3])
        /\ client.image_meta # None => m.value.ElapsedTime_ms = 500

\* C1: round trip.  When a dataset has been written through a DatasetWriter
\* (open, initialize, one add_image at every coordinate of the shape, close),
\* a DatasetReader opened on the directory is constructed and returns, for
\* every coordinate, the record written for that coordinate.
C1_RoundTrip ==
    (pc = "done" /\ ~hist.repeated) => (rd # None /\ \A co \in hist.written : Returned(co))

\* C2: add_image on a position writer is all-or-nothing.  A call that fails
\* leaves the metadata map, Summary entry included, as it was before the call.
C2_AllOrNothing ==
    [][(client.object = "PosDatasetWriter" /\ ret'.op = "add_image" /\ ret'.result # "ok")
          => Serialize(pw'.meta, heap') = Serialize(pw.meta, heap)]_vars

\* C3: once a position writer has materialised its summary, the content of
\* the summary stays the same under every later set_pixel_size,
\* set_channel_data, add_image and save_metadata, on this position writer or
\* on another position writer of the same DatasetWriter.
C3_SummaryFixed ==
    [][ret'.op \in {"set_pixel_size", "set_channel_data", "add_image", "save_metadata"}
          => /\ (Materialised(pw, heap) /\ pw'.summary_meta # None)
                   => heap'[Val(pw'.summary_meta)] = heap[Val(pw.summary_meta)]
             /\ \A i \in DOMAIN dw.positions :
                   (/\ dw.positions[i] # None
                    /\ Materialised(Val(dw.positions[i]), heap)
                    /\ Val(dw'.positions[i]).summary_meta # None)
                   => heap'[Val(Val(dw'.positions[i]).summary_meta)]
                         = heap[Val(Val(dw.positions[i]).summary_meta)]]_vars

\* C4: DatasetWriter.add_image rejects with the size-mismatch error every
\* image whose size is not the one given to DatasetWriter.initialize, the
\* first image written to a position included.
C4_SizeFixed ==
    (ret.op = "add_image" /\ "other_size" \in ret.tags)
       => ret.result = "G2S:dimensions_mismatch"

\* C5: after close() has succeeded on a writer, every further add_image,
\* save_metadata, initialize, set_pixel_size, set_channel_data and close on
\* it fails (whatever error is raised counts as the lifecycle error).
C5_ClosedFails ==
    [][(hist.closed /\ ret'.op \in LaterCalls) => ret'.result # "ok"]_vars

\* target directory, declared shape and accumulated map of the position writer
\* and of the DatasetWriter (one map per bound position)
Target == <<pw.path, pw.name, dw.root_path, dw.name>>
Shape ==
    <<pw.positions, Len(pw.channel_defs), pw.z_slices, pw.frames,
      Len(dw.positions), Len(dw.channel_defs), dw.z_slices, dw.frames>>
Maps ==
    <<Serialize(pw.meta, heap),
      [i \in DOMAIN dw.positions |->
          IF dw.positions[i] = None THEN None
          ELSE Some(Serialize(Val(dw.positions[i]).meta, heap))]>>

\* C6: the lifecycle is one-way.  Once open has succeeded on a writer, a later
\* open on it fails and leaves the writer's target directory, declared shape
\* and accumulated map as they were.
C6_OneWay ==
    [][(hist.opened /\ ret'.op = "open")
          => (/\ ret'.result # "ok"
              /\ Target' = Target /\ Shape' = Shape /\ Maps' = Maps)]_vars

\* C7: add_image on a writer that has not been opened, or has been opened but
\* not initialized, fails, writes no file, creates no directory and stores no
\* record, for the position writer and for the DatasetWriter.
C7_NotReady ==
    [][(ret'.op = "add_image" /\ (~hist.opened \/ ~hist.initialized))
          => (/\ ret'.result # "ok"
              /\ dirs' = dirs /\ files' = files
              /\ pw'.meta = pw.meta /\ dw'.positions = dw.positions)]_vars

\* C8: initialize takes effect once.  After an initialize call has been
\* accepted, whatever its arguments, every later initialize fails and leaves
\* width, height, pixel type and bit depth unchanged; and an initialize call
\* that fails on a writer that has accepted none leaves them unset.
C8_InitializeOnce ==
    [][ret'.op = "initialize"
          => /\ hist.initialized
                   => (/\ ret'.result # "ok"
                       /\ Dimensions(pw') = Dimensions(pw)
                       /\ Dimensions(dw') = Dimensions(dw))
             /\ (~hist.initialized /\ ret'.result # "ok")
                   => (Dimensions(pw') = Unset /\ Dimensions(dw') = Unset)]_vars

\* the map of the position writer in slot i of the DatasetWriter d
MapOf(d, i) == Val(Val(d.positions[i]).meta)

\* C10: a second add_image at a coordinate already written raises no error;
\* the map then holds under that coordinate's key the record of the second
\* call, and the records under all other keys are unchanged.
C10_Overwrite ==
    [][(ret'.op = "add_image" /\ {"acceptable", "repeat"} \subseteq ret'.tags)
          => LET co == hist'.last
                 i == co[1] + 1
                 key == get_frame_key(co[2], co[3], co[4])
             IN  /\ ret'.result = "ok"
                 /\ key \in DOMAIN MapOf(dw', i).at
                 /\ heap'[MapOf(dw', i).at[key]].PositionIndex = co[1]
                 /\ heap'[MapOf(dw', i).at[key]].ChannelIndex = co[2]
                 /\ heap'[MapOf(dw', i).at[key]].SliceIndex = co[3]
                 /\ heap'[MapOf(dw', i).at[key]].FrameIndex = co[4]
                 /\ \A k \in DOMAIN MapOf(dw, i).at \ {key} :
                       /\ k \in DOMAIN MapOf(dw', i).at
                       /\ heap'[MapOf(dw', i).at[k]] = heap[MapOf(dw, i).at[k]]]_vars

\* what the sidecar of position writer w holds in file system fs
SidecarOf(w, fs) ==
    LET f == Join(Join(Val(w.path), Val(w.name)), METADATA_FILE_NAME)
    IN  IF f \in DOMAIN fs /\ fs[f].kind = "sidecar" THEN fs[f].json ELSE Some("absent")

Saved ==
    /\ client.object = "PosDatasetWriter" /\ ret.op = "save_metadata" /\ ret.result = "ok"
    /\ hist.opened /\ hist.initialized /\ ~hist.closed

\* C12: save_metadata on a writer that is being written leaves the writer's map,
\* summary and lifecycle state unchanged and the sidecar equal to the map, and
\* does not close the writer: an add_image that passes the tests succeeds
\* afterwards.
C12_SaveKeepsWriting ==
    [][/\ Saved' => /\ pw' = pw /\ heap' = heap /\ hist' = hist
                     /\ SidecarOf(pw, files') = Serialize(pw.meta, heap)
       /\ (Saved /\ ret'.op = "add_image" /\ "acceptable" \in ret'.tags)
             => ret'.result = "ok"]_vars

\* C13: add_image fails with the invalid-coordinate error whenever the array is
\* the declared one and one of position, channel, z_slice, frame lies outside
\* [0, declared count), on the position writer and on the DatasetWriter.
C13_OutsideRejected ==
    (ret.op = "add_image" /\ "outside" \in ret.tags)
       => ret.result = "G2S:invalid_coordinates"

----------------------------------------------------------------------------
(* What the specification says of the readers, stated over the model.      *)

\* the last call was op in ops on the position reader the program constructed
OnPosition(ops) == client.object = "PosDatasetReader" /\ rd # None /\ ret.op \in ops

\* the channel index the last call's channel arguments resolve to, if any
Resolved == get_channel_index(Val(rd), ret.args[1], ret.args[2])

\* the last call's resolved channel, z and t lie within the declared counts
WithinShape ==
    /\ Resolved # None
    /\ InRange(Val(Resolved), Len(Val(rd).channel_names))
    /\ InRange(ret.args[3], Val(rd).z_slices) /\ InRange(ret.args[4], Val(rd).frames)

\* the sidecar holds a record for the coordinate of the last call
Present ==
    get_frame_key(Val(Resolved), ret.args[3], ret.args[4]) \in DOMAIN Val(rd).metadata.at

\* C14: sparse tolerance.  For a coordinate within the declared counts,
\* image_metadata and image_pixels succeed if the dataset holds the coordinate
\* and fail with the library's error for an absent key if it does not.
C14_Sparse ==
    (OnPosition({"image_metadata", "image_pixels"}) /\ WithinShape)
       => ret.result = IF Present THEN "ok" ELSE "G2S:frame_key"

\* C15: range validation on read.  image_metadata and image_pixels fail with
\* the invalid-coordinate error whenever the resolved channel, z or t index
\* lies outside [0, declared count), and image_pixels then fetches no file.
C15_RangeChecked ==
    (OnPosition({"image_metadata", "image_pixels"}) /\ Resolved # None /\ ~WithinShape)
       => /\ ret.result = "G2S:coordinates"
          /\ ret.op = "image_pixels" => ret.out.read = None

\* image_pixels was called with channel = ManyChannels on a position of
\* ManyChannels channels, and with channel = 0 on a position without channels
C15_ChannelBeyond ==
    /\ OnPosition({"image_pixels"}) /\ ret.args[2] = <<>>
    /\ ret.args[1] >= Len(Val(rd).channel_names)
    /\ Len(Val(rd).channel_names) = ManyChannels
    /\ InRange(ret.args[3], Val(rd).z_slices) /\ InRange(ret.args[4], Val(rd).frames)
    /\ ret.result = "G2S:coordinates"

\* C16: image_pixels(channel_name = N, z, t) reads the image file named in the
\* record that image_metadata(channel_name = N, z, t) returns, whatever the
\* channel_index argument is.
C16_PixelsOfRecord ==
    (OnPosition({"image_pixels"}) /\ ret.args[2] # <<>> /\ WithinShape /\ Present)
       => /\ ret.result = "ok"
          /\ ret.out.read
               = Some(Join(Val(rd).path,
                           PosDatasetReader_image_metadata(Val(rd), ret.args[1], ret.args[2],
                                                           ret.args[3], ret.args[4]).value.FileName))

\* the position of name N in the channel list L given to set_channel_data
IndexIn(L, N) == FirstIndex([i \in DOMAIN L |-> L[i].name], N)

\* C17: channel name round trip.  On a dataset whose writer was given the list
\* L by set_channel_data, a name resolves to its index in L, a name that is not
\* in L fails with the invalid-coordinate error, and without a name the
\* numeric index comes back as it was passed.
C17_NameRoundTrip ==
    (OnPosition({"get_channel_index"}) /\ client.supplied # None)
       => IF ret.args[2] = <<>> THEN ret.out.value = Some(ret.args[1])
          ELSE IF IndexIn(Val(client.supplied), ret.args[2]) = None
          THEN ret.result = "G2S:channel_name"
          ELSE ret.out.value = IndexIn(Val(client.supplied), ret.args[2])

\* C18: after a DatasetReader has been constructed, every slot i of its
\* position array holds the position reader whose position_index() is i; no
\* slot is empty, and so none of the position directories is dropped.
C18_SlotsByIndex ==
    (client.object = "DatasetReader" /\ rd # None)
       => \A i \in DOMAIN Val(rd).positions :
             /\ Val(rd).positions[i] # None
             /\ position_index(Val(Val(rd).positions[i])) = [result |-> "ok", value |-> i - 1]

\* the image records of reader r that carry a PositionIndex field, in the
\* order of the sidecar
Carriers(r) ==
    SelectSeq(r.metadata.order,
              LAMBDA fk : IsFrameKey(fk) /\ "PositionIndex" \in DOMAIN r.metadata.at[fk])

\* C19: position_index() returns the PositionIndex of the first image record
\* that carries the field, skipping records that lack it, and fails with the
\* library's error exactly when no record carries it.
C19_FirstCarrier ==
    OnPosition({"position_index"})
       => IF Carriers(Val(rd)) = <<>> THEN ret.result = "G2S:position_index"
          ELSE /\ ret.result = "ok"
               /\ ret.out.value = Val(rd).metadata.at[Carriers(Val(rd))[1]].PositionIndex

\* ---------------------------------------------------------------------------
\* The guarded overwrite of DatasetWriter.open
\* ---------------------------------------------------------------------------

\* the errors open raises when it declines to overwrite
OverwriteRefused ==
    {"G2S:overwrite_non_directory", "G2S:overwrite_not_a_dataset", "G2S:overwrite_no_metadata"}

\* the dataset path is a directory with a subdirectory that holds a metadata.txt
HoldsPosition ==
    /\ DatasetPath \in dirs
    /\ \E n \in Listdir(dirs, files, DatasetPath) :
          /\ Join(DatasetPath, n) \in dirs
          /\ Exists(dirs, files, Join(Join(DatasetPath, n), METADATA_FILE_NAME))

\* C20: open(overwrite=True) on an existing path changes the file system only
\* if the path is a directory with at least one subdirectory that contains a
\* metadata.txt; in every other case (empty directory, files only,
\* subdirectories without a sidecar, a non-directory) it fails with one of the
\* overwrite errors and leaves the directories and files as they were.
C20_GuardedOverwrite ==
    [][(ret'.op = "open" /\ {"overwrite", "existing"} \subseteq ret'.tags)
          => /\ (<<dirs', files'>> # <<dirs, files>> => HoldsPosition)
             /\ (~HoldsPosition => /\ ret'.result \in OverwriteRefused
                                   /\ dirs' = dirs /\ files' = files)]_vars

\* an overwriting open has deleted what the dataset directory held
C20_Deleted ==
    /\ ret.op = "open" /\ {"overwrite", "existing"} \subseteq ret.tags
    /\ ret.result = "ok"
    /\ DatasetPath \in dirs /\ Listdir(dirs, files, DatasetPath) = {}

\* C21: open(overwrite=True) on a directory that holds at least one
\* subdirectory with a metadata.txt goes through, whatever else the directory
\* holds and whichever entry is listed first: the old tree is gone and the
\* dataset directory is there, empty.
C21_OverwriteProceeds ==
    [][(ret'.op = "open" /\ {"overwrite", "existing"} \subseteq ret'.tags /\ HoldsPosition)
          => /\ ret'.result = "ok"
             /\ DatasetPath \in dirs'
             /\ Listdir(dirs', files', DatasetPath) = {}]_vars

\* ---------------------------------------------------------------------------
\* The position writers of a DatasetWriter
\* ---------------------------------------------------------------------------

\* the DatasetWriter has been opened and initialized and not closed since
Live == hist.opened /\ hist.initialized /\ ~hist.closed

\* an add_image call is returning whose position lies in the declared range;
\* Slot is the slot of _positions it addresses
Addressed ==
    /\ client.object = "DatasetWriter" /\ Live
    /\ ret'.op = "add_image"
    /\ InRange(ret'.args.position, Len(dw.positions))
Slot == ret'.args.position + 1

\* the name the returning call asks for
AskedName ==
    IF ret'.args.position_name # <<>> THEN ret'.args.position_name
    ELSE DefaultName(ret'.args.position)

\* the returning call is one a new position can serve: the array has the
\* declared type and size, the coordinates lie in the declared ranges and no
\* entry of the dataset directory has the asked name yet
Servable ==
    /\ Declared(dw, ret'.args.pixels, ret'.args.position, ret'.args.channel,
                ret'.args.z_slice, ret'.args.frame)
    /\ ~Exists(dirs, files, Join(DatasetPath, AskedName))

Entries == Listdir(dirs, files, DatasetPath)

\* the sidecar text found in entry n of the dataset directory, None without one
EntrySidecar(n) ==
    IF Join(Join(DatasetPath, n), METADATA_FILE_NAME) \in DOMAIN files
    THEN files[Join(Join(DatasetPath, n), METADATA_FILE_NAME)].json
    ELSE None

\* C23: after DatasetWriter.close() the dataset directory holds one position
\* subdirectory for every position that received a successful add_image and
\* nothing else, and each of them holds a sidecar with a Summary entry; a
\* position that was never written successfully has left no directory.
C23_WrittenOnly ==
    (client.object = "DatasetWriter" /\ hist.opened /\ ret.op = "close" /\ ret.result = "ok")
       => /\ Cardinality(Entries) = Cardinality(hist.stored)
          /\ \A n \in Entries :
                /\ Join(DatasetPath, n) \in dirs
                /\ EntrySidecar(n) # None
                /\ KEY_SUMMARY \in DOMAIN Val(EntrySidecar(n)).at

\* ---------------------------------------------------------------------------
\* Opening a position reader
\* ---------------------------------------------------------------------------

\* PosDatasetReader(path) has returned on a position directory with a sidecar
\* file; SidecarText is the text of that file
Constructed ==
    /\ client.object = "PosDatasetReader" /\ ret.op = "PosDatasetReader"
    /\ Join(client.path, METADATA_FILE_NAME) \in DOMAIN files
SidecarText == files[Join(client.path, METADATA_FILE_NAME)]

\* C24: a sidecar that lacks only its final closing brace opens, with the
\* metadata the complete text denotes; a text that does not parse after one
\* closing brace has been appended makes the constructor fail with the
\* library's dataset error, and no reader is there.
C24_RepairOnce ==
    Constructed
       => CASE SidecarText.kind = "cut" ->
                 /\ ret.result = "ok" /\ rd # None
                 /\ Some(Val(rd).metadata) = SidecarText.json
            [] SidecarText.kind \in {"cut_twice", "other"} ->
                 ret.result = "G2S:format" /\ rd = None
            [] OTHER -> TRUE

\* the summary fields the sidecar of the position directory lacks
Missing == OptionalSummary \ DOMAIN Val(SidecarText.json).at[KEY_SUMMARY]

\* C25: a position reader, local or on remote storage, opens a sidecar whose
\* summary lacks any of the fields other than the counts of the coordinates
\* and the pixel type (Prefix, PixelSize_um, BitDepth, Width, Height); with
\* Prefix absent its name is the base name of the position directory.
C25_OptionalSummary ==
    (/\ client \in SummaryReaders
     /\ ret.op \in {"PosDatasetReader", "G2SPosDatasetReaderS3"})
       => /\ ret.result = "ok" /\ rd # None
          /\ "Prefix" \in Missing => Val(rd).name = client.path[Len(client.path)]

\* ---------------------------------------------------------------------------
\* The coordinate key
\* ---------------------------------------------------------------------------

\* C26: a position reader locates the record of a coordinate within the shape
\* whether the sidecar keys its records in the 3-coordinate form or in the
\* form that embeds the position: image_metadata by channel index returns the
\* record of that channel, slice and frame.
C26_EitherForm ==
    (/\ client.object = "PosDatasetReader" /\ rd # None /\ ret.op = "image_metadata"
     /\ ret.args[2] = <<>> /\ WithinShape
     /\ \A c \in 0..(Len(Val(rd).channel_names) - 1), t \in 0..(Val(rd).frames - 1) :
           \/ get_frame_key(c, 0, t) \in DOMAIN Val(rd).metadata.at
           \/ FrameKey4(0, c, 0, t) \in DOMAIN Val(rd).metadata.at)
       => /\ ret.result = "ok"
          /\ ret.out.value.ChannelIndex = ret.args[1]
          /\ ret.out.value.SliceIndex = ret.args[3]
          /\ ret.out.value.FrameIndex = ret.args[4]

\* C27: the coordinate key is a function of the coordinate, the same at every
\* call, and no other (channel, z_slice, frame) within the bounds has the key
\* of the encoded one.
C27_KeysDistinct ==
    (client.object = "get_frame_key" /\ ret.op = "get_frame_key")
       => /\ ret.before # None => ret.out = Val(ret.before)
          /\ \A b \in Triples : get_frame_key(b[1], b[2], b[3]) = ret.out => b = ret.args

\* a coordinate with numbers of more than one digit has been encoded twice
C27_TwoDigits ==
    /\ client.object = "get_frame_key" /\ pc = "done"
    /\ ret.args = <<1, MaxCoordinate, 10>>

\* ---------------------------------------------------------------------------
\* The records of a position writer
\* ---------------------------------------------------------------------------

\* C28: every record in the map of a position writer keeps what the add_image
\* call that stored it gave it, whatever calls follow for other coordinates,
\* also when the caller passes the same dict as additional_meta again: the
\* record under the key of (channel, z_slice, frame) holds these coordinates
\* and the name of that channel.
C28_RecordsKept ==
    (client.object = "G2SPosDatasetWriter" /\ pw.meta # None)
       => \A k \in (DOMAIN Val(pw.meta).at) \ {KEY_SUMMARY} :
             /\ k = get_frame_key(heap[Val(pw.meta).at[k]].ChannelIndex,
                                  heap[Val(pw.meta).at[k]].SliceIndex,
                                  heap[Val(pw.meta).at[k]].FrameIndex)
             /\ heap[Val(pw.meta).at[k]].Channel
                   = pw.channel_names[heap[Val(pw.meta).at[k]].ChannelIndex + 1]


----------------------------------------------------------------------------
(* A refused add_image                                                     *)

\* the errors by which add_image refuses an array, a coordinate or a name
Refused ==
    {"G2S:pixel_type_mismatch", "G2S:dimensions_mismatch", "G2S:invalid_coordinates",
     "G2S:coordinates", "G2S:position_name_mismatch", "G2S:unsupported_type",
     "G2S:unsupported_components", "IndexError"}

\* C29: a DatasetWriter.add_image call that fails for its array (pixel type,
\* size), its coordinates or its position name leaves the DatasetWriter as it
\* was: no position writer is constructed or bound to a slot, no position
\* directory is created and the size accepted for the position afterwards is
\* what it was.
C29_RefusedUnchanged ==
    [][(/\ client.object = "DatasetWriter" /\ Live
        /\ ret'.op = "add_image" /\ ret'.result \in Refused)
          => dw' = dw /\ dirs' = dirs]_vars


----------------------------------------------------------------------------
(* A dataset of which some positions were written                          *)

\* the position that was written
WrittenPosition == client.layout.dirs \ {WorkDir, RootPath, DatasetPath}

\* the call that has returned addresses a record of the written position
OfWritten ==
    /\ ret.op \in {"image_metadata", "image_pixels"}
    /\ Join(DatasetPath, DefaultName(ret.args[1])) \in WrittenPosition
    /\ ret.args[2] \in 0..(MaxChannels - 1) /\ ret.args[3] = <<>>
    /\ ret.args[4] = 0 /\ ret.args[5] \in 0..(MaxFrames - 1)

\* C30: a dataset of which only some of the declared positions were written
\* and closed opens in DatasetReader, and image_metadata and image_pixels then
\* succeed for the coordinates of a written position.
C30_PartialOpens ==
    client \in PartialReaders
       => /\ ret.op = "DatasetReader" => ret.result = "ok"
          /\ OfWritten => ret.result = "ok"

============================================================================
